---- MODULE Spec2Model ----
(***************************************************************************)
(* Message transformation pipeline of tg_analyzer: the cleaner factory and *)
(* TelegramAnalyzer.clean, the export parser, the context cleaner and the  *)
(* anonymization map of the privacy cleaner.                               *)
(*                                                                         *)
(* Seven specifications share the variables; each one drives one component *)
(* and leaves the variables of the others at their initial values:         *)
(*   SpecClean   TelegramAnalyzer.clean and get_cleaner                    *)
(*   SpecParse   TelegramParser.parse_data / _parse_message                *)
(*   SpecCtx     ContextCleaner.clean, levels 1 to 3                       *)
(*   SpecAnon    PrivacyCleaner instances and _anonymize_user_id           *)
(*   SpecOut     PrivacyCleaner.clean and SizeCleaner.clean, levels 1 to 3 *)
(*   SpecFmt     single calls of the formatting and decoding helpers       *)
(*   SpecBatch   BatchProcessor._process_multiple_files and its workers    *)
(***************************************************************************)
EXTENDS Integers, Sequences, FiniteSets, TLC

VARIABLES
    \* ---- TelegramAnalyzer.clean (core.py) and get_cleaner
    an_pc,          \* position of the running clean() call
    an_args,        \* its arguments: input file, approach, level, output_format
    an_parserCalls, \* calls of self.parser.parse_file made by this call
    an_fileReads,   \* times the input file was opened by this call
    an_cleaners,    \* cleaner instances constructed by this call
    an_exc,         \* exception raised to the caller: type and message head
    gc_ret,         \* result of the last direct get_cleaner(approach, level)
    \* ---- TelegramParser.parse_data
    pr_pc,          \* position of parse_data
    pr_data,        \* the decoded export document
    pr_i,           \* index of the next raw record in data["messages"]
    pr_messages,    \* chat_info.messages
    pr_exc,         \* exception raised by parse_data
    pr_gated,       \* messages passing the type gate of the chosen cleaner
    \* ---- ContextCleaner.clean
    cx_pc,          \* position inside clean()
    cx_level,       \* self.level
    cx_msgs,        \* chat_info.messages (id, type, reply_to_message_id)
    cx_i,           \* index of the message / root the outer loop is at
    cx_processed,   \* level 2: the set `processed`
    cx_cur,         \* level 2: index of current_msg in the walk (0: none)
    cx_chain,       \* level 2: chain_messages (indices into cx_msgs)
    cx_stack,       \* level 3: frames of process_message
    cx_lines,       \* emitted lines, in order
    \* ---- PrivacyCleaner instances
    pv_mapping,     \* pv_mapping[c]: user_mapping of cleaner instance c
    pv_level,       \* pv_level[c]: self.level of cleaner instance c
    pv_ret,         \* the last call made on an instance, and what it returned
    \* ---- PrivacyCleaner.clean / SizeCleaner.clean on one chat
    ou_approach,    \* the approach the cleaners are made for
    ou_chat,        \* chat_info.messages
    ou_out,         \* ou_out[l]: what the level-l cleaner's clean() gave
    \* ---- one call of a formatting or decoding helper
    fm_op,          \* the helper that was called (None: no call yet)
    fm_in,          \* its argument
    fm_out,         \* what it returned or raised
    \* ---- BatchProcessor._process_multiple_files
    bt_main,        \* position of the calling thread
    bt_skip,        \* skip_existing
    bt_files,       \* the input files, in the order they are listed
    bt_now,         \* the clock, in whole seconds
    bt_i,           \* index of the file the submission loop is at
    bt_path,        \* bt_path[t]: the output path chosen for file t
    bt_pc,          \* bt_pc[t]: position of the task of file t
    bt_cleaner,     \* bt_cleaner[t]: the cleaner instance of task t (0: none)
    bt_k,           \* bt_k[t]: index of the next message task t cleans
    bt_out,         \* bt_out[t]: the cleaned data of task t so far
    bt_mapping,     \* bt_mapping[c]: user_mapping of cleaner instance c
    bt_disk,        \* the output files written: path, source file, data
    bt_results      \* the results dict: input file -> output path or ""

cleanVars == <<an_pc, an_args, an_parserCalls, an_fileReads, an_cleaners, an_exc, gc_ret>>
parseVars == <<pr_pc, pr_data, pr_i, pr_messages, pr_exc, pr_gated>>
ctxVars == <<cx_pc, cx_level, cx_msgs, cx_i, cx_processed, cx_cur, cx_chain, cx_stack, cx_lines>>
anonVars == <<pv_mapping, pv_level, pv_ret>>
outVars == <<ou_approach, ou_chat, ou_out>>
fmtVars == <<fm_op, fm_in, fm_out>>
batchVars == <<bt_main, bt_skip, bt_files, bt_now, bt_i, bt_path, bt_pc, bt_cleaner,
               bt_k, bt_out, bt_mapping, bt_disk, bt_results>>
vars == <<cleanVars, parseVars, ctxVars, anonVars, outVars, fmtVars, batchVars>>

None == "None"
NoExc == [exc |-> None, msg |-> None]
NoCleaner == [approach |-> None, level |-> 0]
NoLabel == [prefix |-> None, hex |-> <<>>]
NoCall == [op |-> None, inst |-> 0, id |-> None, known |-> FALSE, ret |-> NoLabel]
NotRun == [ran |-> FALSE, lines |-> <<>>, exc |-> NoExc]

(***************************************************************************)
(* Values every specification starts the other components from.            *)
(***************************************************************************)
CleanIdle ==
    /\ an_pc = "idle"
    /\ an_args = [input_file |-> None, approach |-> None, level |-> 0,
                  output_format |-> None]
    /\ an_parserCalls = 0
    /\ an_fileReads = 0
    /\ an_cleaners = 0
    /\ an_exc = NoExc
    /\ gc_ret = [called |-> FALSE, approach |-> None, level |-> 0,
                 ret |-> [exc |-> None, msg |-> None, cleaner |-> NoCleaner]]

ParseIdle ==
    /\ pr_pc = "idle"
    /\ pr_data = [missing |-> "none", msgsKind |-> "list", messages |-> <<>>]
    /\ pr_i = 0
    /\ pr_messages = <<>>
    /\ pr_exc = NoExc
    /\ pr_gated = [a \in {"privacy", "size", "context"} |-> [l \in {1, 2, 3} |-> <<>>]]

CtxIdle ==
    /\ cx_pc = "idle"
    /\ cx_level = 0
    /\ cx_msgs = <<>>
    /\ cx_i = 0
    /\ cx_processed = {}
    /\ cx_cur = 0
    /\ cx_chain = <<>>
    /\ cx_stack = <<>>
    /\ cx_lines = <<>>

AnonIdle ==
    /\ pv_mapping = <<>>
    /\ pv_level = <<>>
    /\ pv_ret = NoCall

OutIdle ==
    /\ ou_approach = None
    /\ ou_chat = <<>>
    /\ ou_out = [l \in {1, 2, 3} |-> NotRun]

FmtIdle ==
    /\ fm_op = None
    /\ fm_in = <<>>
    /\ fm_out = <<>>

BatchIdle ==
    /\ bt_main = "idle"
    /\ bt_skip = FALSE
    /\ bt_files = <<>>
    /\ bt_now = 0
    /\ bt_i = 0
    /\ bt_path = <<>>
    /\ bt_pc = <<>>
    /\ bt_cleaner = <<>>
    /\ bt_k = <<>>
    /\ bt_out = <<>>
    /\ bt_mapping = <<>>
    /\ bt_disk = {}
    /\ bt_results = <<>>

(***************************************************************************)
(* constants.py, base_cleaner.get_cleaner                                  *)
(***************************************************************************)
VALID_CLEANING_APPROACHES == {"privacy", "size", "context"}
VALID_CLEANING_LEVELS == {1, 2, 3}
VALID_OUTPUT_FORMATS == {"text", "json", "markdown", "csv"}

\* The arguments callers are drawn from: valid ones and invalid ones.
Approaches == VALID_CLEANING_APPROACHES \cup {"invalid"}
MaxLevel == 5
Levels == 0..MaxLevel
Formats == {"text", "csv", "invalid"}

Raise(type, msg) == [exc |-> type, msg |-> msg, cleaner |-> NoCleaner]

\* A get_cleaner that forgets the level check and builds the cleaner anyway.
GetCleanerNoLevelCheck(approach, level) ==
    IF approach \notin {"privacy", "size", "context"}
    THEN Raise("ValueError", "Invalid approach")
    ELSE [exc |-> None, msg |-> None,
          cleaner |-> [approach |-> approach, level |-> level]]

\* get_cleaner(approach, level): the cleaner instance, or the ValueError.
get_cleaner(approach, level) ==
    IF approach \notin {"privacy", "size", "context"}
    THEN Raise("ValueError", "Invalid approach")
    ELSE IF level \notin {1, 2, 3}
    THEN Raise("ValueError", "Invalid level")
    ELSE [exc |-> None, msg |-> None,
          cleaner |-> [approach |-> approach, level |-> level]]

\* A direct call of the factory.
FactoryCall ==
    /\ an_pc = "idle"
    /\ ~gc_ret.called
    /\ \E a \in Approaches, l \in Levels :
          gc_ret' = [called |-> TRUE, approach |-> a, level |-> l,
                     ret |-> get_cleaner(a, l)]
    /\ UNCHANGED <<an_pc, an_args, an_parserCalls, an_fileReads, an_cleaners, an_exc>>
    /\ UNCHANGED <<parseVars, ctxVars, anonVars, outVars, fmtVars, batchVars>>

(***************************************************************************)
(* core.TelegramAnalyzer.clean                                             *)
(* The input file is one of: missing, empty, not JSON, JSON that is no     *)
(* export, an export whose records are all skipped, an export holding a     *)
(* value that is no record, a good export.                                 *)
(***************************************************************************)
FileStates == {"missing", "empty", "bad_json", "bad_export", "all_skipped",
               "non_record", "ok"}

\* TelegramAnalyzer.clean is entered.
CleanCall ==
    /\ an_pc = "idle"
    /\ \E f \in FileStates, a \in Approaches, l \in Levels, o \in Formats :
          an_args' = [input_file |-> f, approach |-> a, level |-> l,
                      output_format |-> o]
    /\ an_pc' = "validate"
    /\ an_parserCalls' = 0
    /\ an_fileReads' = 0
    /\ an_cleaners' = 0
    /\ an_exc' = NoExc
    /\ UNCHANGED gc_ret
    /\ UNCHANGED <<parseVars, ctxVars, anonVars, outVars, fmtVars, batchVars>>

\* Handlers that turn every failure into a plain Exception.
RewrapAllAsException(type, msg) == [exc |-> "Exception", msg |-> msg]

\* The handlers of clean(): FileNotFoundError and ValueError keep their type
\* (the ValueError message is prefixed), anything else becomes Exception.
Rewrap(type, msg) ==
    IF type \in {"FileNotFoundError", "ValueError"}
    THEN [exc |-> type, msg |-> msg]
    ELSE [exc |-> "Exception", msg |-> msg]

\* The argument checks: approach, then level, then output_format.
Validate(args) ==
    IF args.approach \notin VALID_CLEANING_APPROACHES
    THEN Rewrap("ValueError", "Invalid approach")
    ELSE IF args.level \notin VALID_CLEANING_LEVELS
    THEN Rewrap("ValueError", "Invalid level")
    ELSE IF args.output_format \notin VALID_OUTPUT_FORMATS
    THEN Rewrap("ValueError", "Invalid format")
    ELSE NoExc

CleanValidate ==
    /\ an_pc = "validate"
    /\ LET v == Validate(an_args) IN
          IF v.exc # None
          THEN an_pc' = "raised" /\ an_exc' = v
          ELSE an_pc' = "parse" /\ an_exc' = an_exc
    /\ UNCHANGED <<an_args, an_parserCalls, an_fileReads, an_cleaners, gc_ret>>
    /\ UNCHANGED <<parseVars, ctxVars, anonVars, outVars, fmtVars, batchVars>>

\* self.parser.parse_file(input_file) and the "no messages" check after it.
\* parse_file tests file_path.exists() before it opens the file.
ParseFileOutcome(f) ==
    CASE f = "missing" -> Rewrap("FileNotFoundError", "File not found")
      [] f = "empty" -> Rewrap("ValueError", "is empty")
      [] f = "bad_json" -> Rewrap("ValueError", "JSONDecodeError")
      [] f = "bad_export" -> Rewrap("ValueError", "Invalid Telegram export format")
      [] f = "non_record" -> Rewrap("AttributeError", "has no attribute get")
      [] f = "all_skipped" -> Rewrap("ValueError", "No messages found")
      [] OTHER -> NoExc

CleanParse ==
    /\ an_pc = "parse"
    /\ an_parserCalls' = an_parserCalls + 1
    /\ an_fileReads' = IF an_args.input_file = "missing" THEN an_fileReads
                       ELSE an_fileReads + 1
    /\ LET p == ParseFileOutcome(an_args.input_file) IN
          IF p.exc # None
          THEN an_pc' = "raised" /\ an_exc' = p
          ELSE an_pc' = "get_cleaner" /\ an_exc' = an_exc
    /\ UNCHANGED <<an_args, an_cleaners, gc_ret>>
    /\ UNCHANGED <<parseVars, ctxVars, anonVars, outVars, fmtVars, batchVars>>

\* cleaner = get_cleaner(approach, level); cleaner.clean(data);
\* get_formatter(output_format).format(cleaned_data)
CleanRun ==
    /\ an_pc = "get_cleaner"
    /\ LET g == get_cleaner(an_args.approach, an_args.level) IN
          IF g.exc # None
          THEN /\ an_pc' = "raised"
               /\ an_exc' = Rewrap(g.exc, g.msg)
               /\ an_cleaners' = an_cleaners
          ELSE /\ an_pc' = "returned"
               /\ an_exc' = an_exc
               /\ an_cleaners' = an_cleaners + 1
    /\ UNCHANGED <<an_args, an_parserCalls, an_fileReads, gc_ret>>
    /\ UNCHANGED <<parseVars, ctxVars, anonVars, outVars, fmtVars, batchVars>>

CleanInit == CleanIdle /\ ParseIdle /\ CtxIdle /\ AnonIdle /\ OutIdle /\ FmtIdle /\ BatchIdle
CleanNext == FactoryCall \/ CleanCall \/ CleanValidate \/ CleanParse \/ CleanRun
SpecClean == CleanInit /\ [][CleanNext]_vars

\* An approach / level pair the factory must refuse.
InvalidSelection(approach, level) ==
    approach \notin {"privacy", "size", "context"} \/ level \notin {1, 2, 3}

\* C1: an approach outside {privacy, size, context} or a level outside
\* {1, 2, 3} fails with a ValueError before any processing: get_cleaner raises
\* and constructs no cleaner, and TelegramAnalyzer.clean raises the validation
\* error (Invalid approach / Invalid level) with the parser never invoked, the
\* input file never opened and no cleaner built, whatever the file's state.
C1_ValidationBeforeProcessing ==
    /\ (gc_ret.called /\ InvalidSelection(gc_ret.approach, gc_ret.level)) =>
          /\ gc_ret.ret.exc = "ValueError"
          /\ gc_ret.ret.cleaner = NoCleaner
    /\ (an_pc # "idle" /\ InvalidSelection(an_args.approach, an_args.level)) =>
          /\ an_pc \in {"validate", "raised"}
          /\ an_parserCalls = 0
          /\ an_fileReads = 0
          /\ an_cleaners = 0
          /\ an_pc = "raised" =>
                /\ an_exc.exc = "ValueError"
                /\ an_exc.msg \in {"Invalid approach", "Invalid level"}

\* clean("missing file", "privacy", 5) has raised, after get_cleaner("invalid", 2).
C1_Witness ==
    /\ gc_ret.called /\ gc_ret.approach = "invalid" /\ gc_ret.level = 2
    /\ an_pc = "raised"
    /\ an_args.input_file = "missing"
    /\ an_args.approach = "privacy" /\ an_args.level = 5
    /\ an_exc.exc = "ValueError"

\* The input file fails structurally: it is missing, empty or not JSON.
StructuralFailure(f) == f \in {"missing", "empty", "bad_json"}

\* C19: with valid arguments, a missing input file makes clean() raise
\* FileNotFoundError, an empty file and a file that is not JSON make it raise
\* ValueError, as parse_file does; the call never gets as far as building a
\* cleaner and never returns a cleaned string.
C19_StructuralFailuresAreFatal ==
    (/\ an_pc # "idle"
     /\ Validate(an_args) = NoExc
     /\ StructuralFailure(an_args.input_file)) =>
        /\ an_pc \in {"validate", "parse", "raised"}
        /\ an_cleaners = 0
        /\ an_pc = "raised" =>
              /\ an_parserCalls = 1
              /\ an_exc.exc = IF an_args.input_file = "missing"
                              THEN "FileNotFoundError" ELSE "ValueError"

\* clean("missing file", "size", 1, "text") has raised FileNotFoundError
\* without opening anything.
C19_Witness ==
    /\ an_pc = "raised"
    /\ an_args = [input_file |-> "missing", approach |-> "size", level |-> 1,
                  output_format |-> "text"]
    /\ an_exc.exc = "FileNotFoundError"
    /\ an_parserCalls = 1 /\ an_fileReads = 0

(***************************************************************************)
(* telegram_parser.TelegramParser                                          *)
(*                                                                         *)
(* A raw element of data["messages"] is any JSON value.  kind tells a      *)
(* record (dict) from another value; for a record, each field the parser   *)
(* reads is given by its shape:                                            *)
(*   idk   "int": id holds the integer in field id; "null": the key is     *)
(*         there with a null value; "absent": no id key                    *)
(*   type  a string, "absent" (no key), or "unhashable" (a JSON list)      *)
(*   date  "absent", "iso" (parses), "malformed" (a string that does not   *)
(*         parse), "int" (a number in place of the string)                 *)
(*   ents  text_entities: "absent", "list", "bad_item" (a list holding a   *)
(*         value that is no record), "null"                                *)
(***************************************************************************)
MaxRecs == 3
RawIds == {1, 2}
RawTypes == {"message", "service", "video_file", "unknown_kind"}

RawRec(kind, idk, id, type, date, ents) ==
    [kind |-> kind, idk |-> idk, id |-> id, type |-> type, date |-> date,
     ents |-> ents]

\* Records with nothing wrong but, possibly, their type.
PlainRecords ==
    {RawRec("dict", "int", i, t, "iso", "list") : i \in RawIds, t \in RawTypes}

\* Records of type "message" with one field malformed or unusual.
OddRecords ==
    {RawRec("dict", "absent", 0, "message", "iso", "list"),
     RawRec("dict", "null", 0, "message", "iso", "list"),
     RawRec("dict", "int", 1, "absent", "iso", "list"),
     RawRec("dict", "int", 1, "unhashable", "iso", "list"),
     RawRec("dict", "int", 1, "message", "int", "list"),
     RawRec("dict", "int", 1, "message", "malformed", "list"),
     RawRec("dict", "int", 1, "message", "absent", "null"),
     RawRec("dict", "int", 1, "message", "iso", "bad_item")}

\* Values that are no record at all: a string, a null.
NonRecords ==
    {RawRec("str", "absent", 0, "absent", "absent", "absent"),
     RawRec("null", "absent", 0, "absent", "absent", "absent")}

\* Well-formed records of the media kinds the parser supports.
MediaRecords ==
    {RawRec("dict", "int", 2, t, "iso", "list") :
        t \in {"photo", "video", "document", "voice_message"}}

RawValues == PlainRecords \cup OddRecords \cup NonRecords \cup MediaRecords

RECURSIVE SeqsUpTo(_, _)
SeqsUpTo(S, n) ==
    IF n = 0 THEN {<<>>}
    ELSE LET shorter == SeqsUpTo(S, n - 1) IN
         shorter \cup {Append(q, x) : q \in {r \in shorter : Len(r) = n - 1}, x \in S}

\* The export documents: every list of raw values under a complete top level,
\* and the top-level defects over one good list.
GoodRaw == RawRec("dict", "int", 1, "message", "iso", "list")
Documents ==
    {[missing |-> "none", msgsKind |-> "list", messages |-> q] :
        q \in SeqsUpTo(RawValues, MaxRecs)}
    \cup {[missing |-> k, msgsKind |-> "list", messages |-> <<GoodRaw>>] :
            k \in {"name", "type", "id", "messages"}}
    \cup {[missing |-> "none", msgsKind |-> "str", messages |-> <<>>]}

\* TelegramParser.__init__: self.supported_types without the type filter's
\* list being closed: everything a record names is taken.
SupportedTypesOpen ==
    {"message", "service", "photo", "video", "voice_message", "audio_file",
     "document", "sticker", "animation", "unknown_kind", "video_file"}

\* TelegramParser.__init__: self.supported_types
supported_types ==
    {"message", "service", "photo", "video", "voice_message", "audio_file",
     "document", "sticker", "animation"}

\* _is_valid_telegram_export
IsValidTelegramExport(data) ==
    /\ data.missing = "none"
    /\ data.msgsKind = "list"
    /\ Len(data.messages) # 0
    /\ data.messages[1].kind = "dict"
    /\ data.messages[1].idk # "absent"

\* _parse_date: None for a missing value and for a string that does not
\* parse; a value that is no string has no .replace and raises AttributeError.
ParseDate(date) ==
    CASE date = "absent" -> [exc |-> None, value |-> None]
      [] date = "iso" -> [exc |-> None, value |-> "datetime"]
      [] date = "malformed" -> [exc |-> None, value |-> None]
      [] OTHER -> [exc |-> "AttributeError", value |-> None]

\* _parse_text_entities: iterating null raises TypeError; an element that is
\* no record fails inside the per-entity try and is left out.
ParseTextEntities(ents) ==
    CASE ents = "null" -> [exc |-> "TypeError", count |-> 0]
      [] ents = "list" -> [exc |-> None, count |-> 1]
      [] OTHER -> [exc |-> None, count |-> 0]

NoMessage == [id |-> 0, type |-> None, date |-> None, n_entities |-> 0]

\* The try block of _parse_message: what it returns, or the exception that
\* leaves it.
ParseMessageBody(rec) ==
    IF rec.kind # "dict"
    THEN [out |-> "raise", exc |-> "AttributeError", msg |-> NoMessage]
    ELSE IF rec.type = "unhashable"
    THEN [out |-> "raise", exc |-> "TypeError", msg |-> NoMessage]
    ELSE IF (IF rec.type = "absent" THEN "" ELSE rec.type) \notin supported_types
    THEN [out |-> "none", exc |-> None, msg |-> NoMessage]
    ELSE IF ParseDate(rec.date).exc # None
    THEN [out |-> "raise", exc |-> ParseDate(rec.date).exc, msg |-> NoMessage]
    ELSE IF ParseTextEntities(rec.ents).exc # None
    THEN [out |-> "raise", exc |-> ParseTextEntities(rec.ents).exc, msg |-> NoMessage]
    ELSE IF rec.idk # "int"
    THEN [out |-> "raise", exc |-> "ValidationError", msg |-> NoMessage]
    ELSE [out |-> "message", exc |-> None,
          msg |-> [id |-> rec.id, type |-> rec.type,
                   date |-> ParseDate(rec.date).value,
                   n_entities |-> ParseTextEntities(rec.ents).count]]

\* _parse_message: the try block, and the handler of `except Exception`,
\* whose log line evaluates msg_data.get('id') before it returns None.
ParseMessage(rec) ==
    LET body == ParseMessageBody(rec) IN
    IF body.out # "raise" THEN body
    ELSE IF rec.kind # "dict"
    THEN [out |-> "raise", exc |-> "AttributeError", msg |-> NoMessage]
    ELSE [out |-> "none", exc |-> None, msg |-> NoMessage]

\* parse_data is called with a decoded document.
ParseCall ==
    /\ pr_pc = "idle"
    /\ \E d \in Documents : pr_data' = d
    /\ pr_pc' = "validate"
    /\ UNCHANGED <<pr_i, pr_messages, pr_exc, pr_gated>>
    /\ UNCHANGED <<cleanVars, ctxVars, anonVars, outVars, fmtVars, batchVars>>

\* The validity check and the construction of the empty ChatInfo.
ParseValidate ==
    /\ pr_pc = "validate"
    /\ IF IsValidTelegramExport(pr_data)
       THEN pr_pc' = "loop" /\ pr_i' = 1 /\ pr_exc' = pr_exc
       ELSE /\ pr_pc' = "raised"
            /\ pr_i' = pr_i
            /\ pr_exc' = [exc |-> "ValueError", msg |-> "Invalid Telegram export format"]
    /\ UNCHANGED <<pr_data, pr_messages, pr_gated>>
    /\ UNCHANGED <<cleanVars, ctxVars, anonVars, outVars, fmtVars, batchVars>>

\* One turn of `for msg_data in messages_data`.
ParseStep ==
    /\ pr_pc = "loop"
    /\ pr_i <= Len(pr_data.messages)
    /\ LET r == ParseMessage(pr_data.messages[pr_i]) IN
          CASE r.out = "raise" ->
                  /\ pr_pc' = "raised"
                  /\ pr_exc' = [exc |-> r.exc, msg |-> "has no attribute get"]
                  /\ UNCHANGED <<pr_i, pr_messages>>
            [] r.out = "message" ->
                  /\ pr_messages' = Append(pr_messages, r.msg)
                  /\ pr_i' = pr_i + 1
                  /\ UNCHANGED <<pr_pc, pr_exc>>
            [] OTHER ->
                  /\ pr_i' = pr_i + 1
                  /\ UNCHANGED <<pr_pc, pr_exc, pr_messages>>
    /\ UNCHANGED <<pr_data, pr_gated>>
    /\ UNCHANGED <<cleanVars, ctxVars, anonVars, outVars, fmtVars, batchVars>>

\* The loop is over: parse_data returns chat_info.
ParseReturn ==
    /\ pr_pc = "loop"
    /\ pr_i > Len(pr_data.messages)
    /\ pr_pc' = "returned"
    /\ UNCHANGED <<pr_data, pr_i, pr_messages, pr_exc, pr_gated>>
    /\ UNCHANGED <<cleanVars, ctxVars, anonVars, outVars, fmtVars, batchVars>>

\* A gate whose size level 3 lists the media kinds and forgets "message".
TypeGateSizeMediaOnly(approach, level) ==
    CASE approach = "privacy" /\ level = 3 -> {"message", "service"}
      [] approach = "size" /\ level = 3 ->
            {"photo", "video_file", "document", "voice_message"}
      [] OTHER -> {"message"}

\* The message types each cleaner lets through at the head of its
\* _clean_level_N (every line of a cleaned output comes from such a message).
TypeGate(approach, level) ==
    CASE approach = "privacy" /\ level = 3 -> {"message", "service"}
      [] approach = "size" /\ level = 3 ->
            {"message", "photo", "video_file", "document", "voice_message"}
      [] OTHER -> {"message"}

\* The parsed chat is handed to the cleaners: for each approach and level,
\* the messages of chat_info.messages that pass its type gate.
ParseGate ==
    /\ pr_pc = "returned"
    /\ pr_gated' = [a \in VALID_CLEANING_APPROACHES |->
                      [l \in VALID_CLEANING_LEVELS |->
                          SelectSeq(pr_messages,
                                    LAMBDA m : m.type \in TypeGate(a, l))]]
    /\ pr_pc' = "cleaned"
    /\ UNCHANGED <<pr_data, pr_i, pr_messages, pr_exc>>
    /\ UNCHANGED <<cleanVars, ctxVars, anonVars, outVars, fmtVars, batchVars>>

ParseInit == CleanIdle /\ ParseIdle /\ CtxIdle /\ AnonIdle /\ OutIdle /\ FmtIdle /\ BatchIdle
ParseNext == ParseCall \/ ParseValidate \/ ParseStep \/ ParseReturn \/ ParseGate
SpecParse == ParseInit /\ [][ParseNext]_vars

\* A raw value from which a Message can be built: a record with an integer
\* id whose type, date and text_entities have a usable shape.
Constructs(rec) ==
    /\ rec.kind = "dict"
    /\ rec.idk = "int"
    /\ rec.type # "unhashable"
    /\ rec.date # "int"
    /\ rec.ents # "null"

\* A raw value that parse_data keeps.
Kept(rec) == Constructs(rec) /\ rec.type \in supported_types

\* A raw value that is malformed: whatever its type says, no Message can be
\* built from it.
Malformed(rec) == ~Constructs(rec)

IdType(q) == [k \in 1..Len(q) |-> <<q[k].id, q[k].type>>]

\* The export passed validation and holds exactly one malformed value,
\* somewhere after the first position.
OneMalformedAfterFirst(data) ==
    /\ IsValidTelegramExport(data)
    /\ \E k \in 2..Len(data.messages) :
          /\ Malformed(data.messages[k])
          /\ \A j \in 1..Len(data.messages) : j # k => ~Malformed(data.messages[j])

\* C2: in an export that passes top-level validation, one malformed message
\* record after the first position, whatever its shape, never makes parse_data
\* raise: that record is skipped and every other well-formed record is returned.
C2_MalformedRecordSkipped ==
    OneMalformedAfterFirst(pr_data) =>
        /\ pr_pc # "raised"
        /\ pr_pc \in {"returned", "cleaned"} =>
              IdType(pr_messages) = IdType(SelectSeq(pr_data.messages, Kept))

\* The same, for malformed values that are records (dicts): this much the
\* parser does.
C2_MalformedDictSkipped ==
    (OneMalformedAfterFirst(pr_data)
       /\ \A k \in 1..Len(pr_data.messages) : pr_data.messages[k].kind = "dict") =>
        /\ pr_pc # "raised"
        /\ pr_pc \in {"returned", "cleaned"} =>
              IdType(pr_messages) = IdType(SelectSeq(pr_data.messages, Kept))

\* C3: what parse_data returns is exactly the subsequence, in source order and
\* without duplication, of the input records whose type is supported and that
\* construct; a record of an unsupported type ("unknown_kind", "video_file")
\* is neither in the parse result nor among the messages any cleaner, at any
\* level, lets through.
C3_ParseResultIsSupportedSubsequence ==
    /\ pr_pc = "loop" =>
          IdType(pr_messages) =
             IdType(SelectSeq(SubSeq(pr_data.messages, 1, pr_i - 1), Kept))
    /\ pr_pc \in {"returned", "cleaned"} =>
          IdType(pr_messages) = IdType(SelectSeq(pr_data.messages, Kept))
    /\ \A k \in 1..Len(pr_messages) :
          pr_messages[k].type \notin {"unknown_kind", "video_file"}
    /\ \A a \in VALID_CLEANING_APPROACHES, l \in VALID_CLEANING_LEVELS :
          \A k \in 1..Len(pr_gated[a][l]) :
             /\ pr_gated[a][l][k].type \notin {"unknown_kind", "video_file"}
             /\ \E j \in 1..Len(pr_messages) : pr_messages[j] = pr_gated[a][l][k]

\* <<message 1, unknown_kind, service 2>> was parsed and handed to the cleaners:
\* two messages, in order, the service one passing only privacy level 3.
C3_Witness ==
    /\ pr_pc = "cleaned"
    /\ Len(pr_data.messages) = 3
    /\ pr_data.messages[2].type = "unknown_kind"
    /\ IdType(pr_messages) = <<(<<1, "message">>), (<<2, "service">>)>>
    /\ Len(pr_gated["privacy"][3]) = 2
    /\ Len(pr_gated["size"][3]) = 1

\* The export format is invalid, as the claim lists it: a top-level key is
\* missing, messages is no list or is empty, or its first element is not a
\* record with an id field.
InvalidExport(data) ==
    \/ data.missing \in {"name", "type", "id", "messages"}
    \/ data.msgsKind # "list"
    \/ data.messages = <<>>
    \/ data.messages[1].kind # "dict"
    \/ data.messages[1].idk = "absent"

\* C18: parse_data raises ValueError("Invalid Telegram export format"), with
\* no record parsed and no ChatInfo returned, exactly when the export format
\* is invalid; in every other case it returns a ChatInfo.
C18_RaisesExactlyOnInvalidExport ==
    pr_pc \in {"raised", "returned", "cleaned"} =>
        IF InvalidExport(pr_data)
        THEN /\ pr_pc = "raised"
             /\ pr_exc = [exc |-> "ValueError", msg |-> "Invalid Telegram export format"]
             /\ pr_i = 0 /\ pr_messages = <<>>
        ELSE pr_pc \in {"returned", "cleaned"}

\* The part of C18 the parser keeps: an invalid export is refused with that
\* ValueError before any record is parsed, and that ValueError is raised for
\* no other document.
C18_InvalidExportRefused ==
    /\ (pr_pc \in {"raised", "returned", "cleaned"} /\ InvalidExport(pr_data)) =>
          /\ pr_pc = "raised"
          /\ pr_exc = [exc |-> "ValueError", msg |-> "Invalid Telegram export format"]
          /\ pr_i = 0 /\ pr_messages = <<>>
    /\ (pr_pc = "raised" /\ pr_exc.exc = "ValueError") => InvalidExport(pr_data)

\* The types of which the claim says size level 3 emits a line, under the
\* names the parser supports them by.
SizeLevel3Kinds == {"message", "photo", "video", "document", "voice_message"}

\* C16: size level 3 lets through, and emits a line for, every parsed message
\* that is an ordinary message or a photo, video, document or voice message,
\* while size levels 1 and 2 let through ordinary messages only.
C16_SizeLevel3WidensTypes ==
    pr_pc = "cleaned" =>
        /\ pr_gated["size"][3] =
              SelectSeq(pr_messages, LAMBDA m : m.type \in SizeLevel3Kinds)
        /\ \A l \in {1, 2} :
              pr_gated["size"][l] =
                 SelectSeq(pr_messages, LAMBDA m : m.type = "message")

\* The part of C16 the cleaner keeps: photo, document and voice messages pass
\* level 3 with the ordinary ones, and levels 1 and 2 pass ordinary ones only.
C16_SizeLevel3WidensButVideo ==
    pr_pc = "cleaned" =>
        /\ pr_gated["size"][3] =
              SelectSeq(pr_messages, LAMBDA m : m.type \in SizeLevel3Kinds \ {"video"})
        /\ \A l \in {1, 2} :
              pr_gated["size"][l] =
                 SelectSeq(pr_messages, LAMBDA m : m.type = "message")

\* A record that is sound but for its date: the date key is absent, holds a
\* string that is no timestamp, or holds a number.
BadDate(rec) ==
    /\ rec.kind = "dict"
    /\ rec.idk = "int"
    /\ rec.type \in supported_types
    /\ rec.ents # "null"
    /\ rec.date \in {"absent", "malformed", "int"}

\* The parse result holds the Message of rec, with no date.
KeptWithoutDate(rec) ==
    \E j \in 1..Len(pr_messages) :
        /\ pr_messages[j].id = rec.id
        /\ pr_messages[j].type = rec.type
        /\ pr_messages[j].date = None

\* C23: a record whose date is absent or cannot be parsed as a timestamp (a
\* malformed string or a value of another type) still yields a Message in the
\* parse result, with its date None and its other fields parsed.
C23_BadDateKeepsMessage ==
    pr_pc \in {"returned", "cleaned"} =>
        \A k \in 1..Len(pr_data.messages) :
            BadDate(pr_data.messages[k]) => KeptWithoutDate(pr_data.messages[k])

\* The part of C23 the parser keeps: an absent date and a string that does
\* not parse give a Message without date.
C23_AbsentOrMalformedDateKept ==
    pr_pc \in {"returned", "cleaned"} =>
        \A k \in 1..Len(pr_data.messages) :
            (BadDate(pr_data.messages[k]) /\ pr_data.messages[k].date # "int")
                => KeptWithoutDate(pr_data.messages[k])

(***************************************************************************)
(* privacy_cleaner.PrivacyCleaner: the anonymization map                   *)
(*                                                                         *)
(* Ids are from_id strings.  The four non-empty ids are "user123" (the     *)
(* test's id), "user6", and "user11726592" / "user18979575", two ids whose *)
(* SHA-256 digests begin with the same 12 hex characters.  "" and None     *)
(* are the empty and the absent id.                                        *)
(***************************************************************************)
ANONYMIZED_USER_ID_LENGTH == 12
MaxCleaners == 2

RealIds == {"user123", "user6", "user11726592", "user18979575"}
UserIds == RealIds \cup {"", None}
ChatIds == {"user123"}

\* hashlib.sha256(user_id.encode()).hexdigest(), as the sequence of its 64
\* hex digits; the values are the digests of the four ids.
Sha256Hex(user_id) ==
    \* e606e38b0d8c19b24cf0ee3808183162ea7cd63ff7912dbb22b5e803286b4446
    CASE user_id = "user123" ->
          <<14, 6, 0, 6, 14, 3, 8, 11, 0, 13, 8, 12, 1, 9, 11, 2,
            4, 12, 15, 0, 14, 14, 3, 8, 0, 8, 1, 8, 3, 1, 6, 2,
            14, 10, 7, 12, 13, 6, 3, 15, 15, 7, 9, 1, 2, 13, 11, 11,
            2, 2, 11, 5, 14, 8, 0, 3, 2, 8, 6, 11, 4, 4, 4, 6>>
    \* ecb48a1cc94f951252ec462fe9ecc55c3ef123fadfe935661396c26a45a5809d
      [] user_id = "user6" ->
          <<14, 12, 11, 4, 8, 10, 1, 12, 12, 9, 4, 15, 9, 5, 1, 2,
            5, 2, 14, 12, 4, 6, 2, 15, 14, 9, 14, 12, 12, 5, 5, 12,
            3, 14, 15, 1, 2, 3, 15, 10, 13, 15, 14, 9, 3, 5, 6, 6,
            1, 3, 9, 6, 12, 2, 6, 10, 4, 5, 10, 5, 8, 0, 9, 13>>
    \* 51aea558540ce74e3e103334d2e88df1c2b839e6e7d295f4f29aed2ca1d26edc
      [] user_id = "user11726592" ->
          <<5, 1, 10, 14, 10, 5, 5, 8, 5, 4, 0, 12, 14, 7, 4, 14,
            3, 14, 1, 0, 3, 3, 3, 4, 13, 2, 14, 8, 8, 13, 15, 1,
            12, 2, 11, 8, 3, 9, 14, 6, 14, 7, 13, 2, 9, 5, 15, 4,
            15, 2, 9, 10, 14, 13, 2, 12, 10, 1, 13, 2, 6, 14, 13, 12>>
    \* 51aea558540c4a5494ace745f880a3296353d4bec62a38072984a764ff71ae37
      [] user_id = "user18979575" ->
          <<5, 1, 10, 14, 10, 5, 5, 8, 5, 4, 0, 12, 4, 10, 5, 4,
            9, 4, 10, 12, 14, 7, 4, 5, 15, 8, 8, 0, 10, 3, 2, 9,
            6, 3, 5, 3, 13, 4, 11, 14, 12, 6, 2, 10, 3, 8, 0, 7,
            2, 9, 8, 4, 10, 7, 6, 4, 15, 15, 7, 1, 10, 14, 3, 7>>

Anonymous == [prefix |-> "Anonymous", hex |-> <<>>]

\* A pseudonym cut after the first hex character of the digest.
NewPseudonymOneHex(mapping, user_id) ==
    [prefix |-> "User_", hex |-> SubSeq(Sha256Hex(user_id), 1, 1)]

\* A pseudonym numbered by the order of arrival instead of hashed.
NewPseudonymSequential(mapping, user_id) ==
    [prefix |-> "User_", hex |-> <<Cardinality(DOMAIN mapping)>>]

\* f"User_{hash_obj.hexdigest()[:ANONYMIZED_USER_ID_LENGTH]}"
NewPseudonym(mapping, user_id) ==
    [prefix |-> "User_",
     hex |-> SubSeq(Sha256Hex(user_id), 1, ANONYMIZED_USER_ID_LENGTH)]

\* `not user_id`
Falsy(user_id) == user_id \in {"", None}

Put(mapping, k, v) == [x \in DOMAIN mapping \cup {k} |-> IF x = k THEN v ELSE mapping[x]]

\* An anonymizer that numbers every call and never looks the id up.
AnonymizeUserIdNoLookup(mapping, user_id) ==
    IF Falsy(user_id) THEN [ret |-> Anonymous, mapping |-> mapping]
    ELSE LET label == [prefix |-> "User_", hex |-> <<Cardinality(DOMAIN mapping)>>]
         IN [ret |-> label, mapping |-> Put(mapping, user_id, label)]

\* An anonymizer that files the empty or absent id in the map like any other.
AnonymizeUserIdStoresEmpty(mapping, user_id) ==
    LET m2 == IF user_id \notin DOMAIN mapping
              THEN Put(mapping, user_id,
                       IF Falsy(user_id) THEN Anonymous ELSE NewPseudonym(mapping, user_id))
              ELSE mapping
    IN [ret |-> m2[user_id], mapping |-> m2]

\* _anonymize_user_id on an instance whose user_mapping is `mapping`: the
\* value returned and the mapping afterwards.
AnonymizeUserId(mapping, user_id) ==
    IF Falsy(user_id) THEN [ret |-> Anonymous, mapping |-> mapping]
    ELSE LET m2 == IF user_id \notin DOMAIN mapping
                   THEN Put(mapping, user_id, NewPseudonym(mapping, user_id))
                   ELSE mapping
         IN [ret |-> m2[user_id], mapping |-> m2]

Instances == 1..Len(pv_mapping)
EmptyMapping == [x \in {} |-> NoLabel]

\* PrivacyCleaner(level): a new instance with an empty user_mapping.
NewCleaner ==
    /\ Len(pv_mapping) < MaxCleaners
    /\ \E l \in VALID_CLEANING_LEVELS : pv_level' = Append(pv_level, l)
    /\ pv_mapping' = Append(pv_mapping, EmptyMapping)
    /\ pv_ret' = [NoCall EXCEPT !.op = "init", !.inst = Len(pv_mapping) + 1]
    /\ UNCHANGED <<cleanVars, parseVars, ctxVars, outVars, fmtVars, batchVars>>

\* cleaner._anonymize_user_id(user_id), called on instance c.
Anonymize ==
    \E c \in Instances, u \in UserIds :
        LET r == AnonymizeUserId(pv_mapping[c], u) IN
        /\ pv_mapping' = [pv_mapping EXCEPT ![c] = r.mapping]
        /\ pv_ret' = [op |-> "anonymize", inst |-> c, id |-> u,
                      known |-> u \in DOMAIN pv_mapping[c], ret |-> r.ret]
        /\ UNCHANGED pv_level
        /\ UNCHANGED <<cleanVars, parseVars, ctxVars, outVars, fmtVars, batchVars>>

\* What one turn of `for message in chat_info.messages` in clean() reads for
\* the map: the message's type and from_id, and its reply target as found in
\* messages_dict (resolves: FALSE when the message is no reply or the target
\* is missing), with the target's from_id and whether it has a display name.
LoopMessages ==
    [type : {"message", "service"}, from_id : ChatIds \cup {""}]
ReplyTargets ==
    {[resolves |-> FALSE, from_user |-> FALSE, from_id |-> ""]}
    \cup [resolves : {TRUE}, from_user : BOOLEAN, from_id : ChatIds \cup {""}]

\* The ids _clean_level_1 / _clean_level_2 pass to _anonymize_user_id for one
\* message, in call order: at level 2 the from_id of a resolvable reply target
\* without display name, then at levels 1 and 2 the message's own from_id.
\* Messages that are not of type "message" are skipped first; level 3
\* anonymizes nothing.
IdsAnonymizedFor(level, message, target) ==
    IF level = 3 \/ message.type # "message" THEN <<>>
    ELSE (IF level = 2 /\ target.resolves /\ ~target.from_user
          THEN <<target.from_id>> ELSE <<>>)
         \o (IF ~Falsy(message.from_id) THEN <<message.from_id>> ELSE <<>>)

RECURSIVE AnonymizeAll(_, _)
AnonymizeAll(mapping, ids) ==
    IF ids = <<>> THEN mapping
    ELSE AnonymizeAll(AnonymizeUserId(mapping, Head(ids)).mapping, Tail(ids))

\* One turn of the message loop of cleaner.clean(chat_info) on instance c:
\* its effect on user_mapping.
CleanPrivacyMessage ==
    \E c \in Instances, message \in LoopMessages, target \in ReplyTargets :
        /\ pv_mapping' = [pv_mapping EXCEPT
                            ![c] = AnonymizeAll(@, IdsAnonymizedFor(pv_level[c], message, target))]
        /\ pv_ret' = [NoCall EXCEPT !.op = "clean", !.inst = c]
        /\ UNCHANGED pv_level
        /\ UNCHANGED <<cleanVars, parseVars, ctxVars, outVars, fmtVars, batchVars>>

AnonInit == CleanIdle /\ ParseIdle /\ CtxIdle /\ AnonIdle /\ OutIdle /\ FmtIdle /\ BatchIdle
AnonNext == NewCleaner \/ Anonymize \/ CleanPrivacyMessage
SpecAnon == AnonInit /\ [][AnonNext]_vars

\* C8: within one PrivacyCleaner instance an id that has an entry in
\* user_mapping keeps that entry unchanged through every later call
\* (_anonymize_user_id of any id, clean()), and every _anonymize_user_id call
\* for a non-empty id returns the entry stored for it: the same id gets the
\* identical pseudonym on every call.
C8_Step ==
    /\ \A c \in 1..Len(pv_mapping) : \A u \in DOMAIN pv_mapping[c] :
          /\ u \in DOMAIN pv_mapping'[c]
          /\ pv_mapping'[c][u] = pv_mapping[c][u]
    /\ (pv_ret'.op = "anonymize" /\ ~Falsy(pv_ret'.id)) =>
          /\ pv_ret'.id \in DOMAIN pv_mapping'[pv_ret'.inst]
          /\ pv_ret'.ret = pv_mapping'[pv_ret'.inst][pv_ret'.id]
C8_AnonymizeStable == [][C8_Step]_vars

\* "user123" is anonymized again on an instance that already knew it and has
\* anonymized "user6" as well; the call returns User_e606e38b0d8c.
C8_Witness ==
    /\ pv_ret.op = "anonymize" /\ pv_ret.id = "user123" /\ pv_ret.known
    /\ "user6" \in DOMAIN pv_mapping[pv_ret.inst]
    /\ pv_ret.ret = [prefix |-> "User_", hex |-> <<14, 6, 0, 6, 14, 3, 8, 11, 0, 13, 8, 12>>]

\* C9 as stated: two different non-empty ids handled by the same cleaner
\* instance never get the same pseudonym.
C9_PseudonymsInjective ==
    \A c \in Instances : \A a, b \in DOMAIN pv_mapping[c] :
        a # b => pv_mapping[c][a] # pv_mapping[c][b]

\* C9, amended: the pseudonym of an id is "User_" followed by the first 12 hex
\* characters of its SHA-256 digest, so two different ids of one instance get
\* different pseudonyms whenever their digests differ within the first 12 hex
\* characters (and the same pseudonym when they do not).
C9_InjectiveUpToDigestPrefix ==
    \A c \in Instances : \A a, b \in DOMAIN pv_mapping[c] :
        /\ pv_mapping[c][a].prefix = "User_"
        /\ Len(pv_mapping[c][a].hex) = 12
        /\ (a # b /\ SubSeq(Sha256Hex(a), 1, 12) # SubSeq(Sha256Hex(b), 1, 12))
              => pv_mapping[c][a] # pv_mapping[c][b]
        /\ SubSeq(Sha256Hex(a), 1, 12) = SubSeq(Sha256Hex(b), 1, 12)
              => pv_mapping[c][a] = pv_mapping[c][b]

\* One instance has anonymized all four ids: "user123" and "user6" differ,
\* "user11726592" and "user18979575" coincide.
C9_Witness ==
    \E c \in Instances :
        /\ DOMAIN pv_mapping[c] = RealIds
        /\ pv_mapping[c]["user123"] # pv_mapping[c]["user6"]
        /\ pv_mapping[c]["user11726592"] = pv_mapping[c]["user18979575"]

\* C10 as stated: the label a fresh instance gives to an id is not the one a
\* previous, separate instance gave to the same id.
C10_LabelsDifferAcrossInstances ==
    \A c1, c2 \in Instances :
        c1 # c2 => \A u \in DOMAIN pv_mapping[c1] \cap DOMAIN pv_mapping[c2] :
                      pv_mapping[c1][u] # pv_mapping[c2][u]

\* C10, amended: the map is scoped to one cleaner instance (a new instance
\* starts with an empty map, and a call on one instance changes no other
\* instance's map), but the label is a function of the id alone: every
\* instance, fresh or not, gives an id the same label.
C10_Step ==
    /\ \A c \in 1..Len(pv_mapping) :
          pv_mapping'[c] # pv_mapping[c] => pv_ret'.inst = c
    /\ \A c \in 1..Len(pv_mapping') :
          c > Len(pv_mapping) => DOMAIN pv_mapping'[c] = {}
    /\ \A c1, c2 \in 1..Len(pv_mapping') :
          \A u \in DOMAIN pv_mapping'[c1] \cap DOMAIN pv_mapping'[c2] :
             pv_mapping'[c1][u] = pv_mapping'[c2][u]
C10_MapPerInstanceLabelPerId == [][C10_Step]_vars

\* Two instances have each anonymized "user123", the second one after
\* "user6", and hold the same label for it, while only the second knows "user6".
C10_Witness ==
    /\ Len(pv_mapping) = 2
    /\ "user123" \in DOMAIN pv_mapping[1] /\ "user123" \in DOMAIN pv_mapping[2]
    /\ pv_mapping[1]["user123"] = pv_mapping[2]["user123"]
    /\ "user6" \in DOMAIN pv_mapping[2] /\ "user6" \notin DOMAIN pv_mapping[1]
    /\ pv_ret.op = "anonymize" /\ pv_ret.inst = 2 /\ pv_ret.id = "user123"

\* C20: _anonymize_user_id of an empty or absent id returns the literal
\* "Anonymous" and leaves the user_mapping of every instance as it was, in
\* whatever state the instance is.
C20_Step ==
    (pv_ret'.op = "anonymize" /\ Falsy(pv_ret'.id)) =>
        /\ pv_ret'.ret = Anonymous
        /\ pv_mapping' = pv_mapping
        /\ \A c \in 1..Len(pv_mapping') : \A u \in DOMAIN pv_mapping'[c] : ~Falsy(u)
C20_EmptyIdAnonymousNoEntry == [][C20_Step]_vars

\* The empty id was anonymized on an instance that already holds the entry
\* of "user123", while another instance has an empty map.
C20_Witness ==
    /\ pv_ret.op = "anonymize" /\ pv_ret.id = "" /\ pv_ret.ret = Anonymous
    /\ DOMAIN pv_mapping[pv_ret.inst] = {"user123"}
    /\ \E c \in Instances : DOMAIN pv_mapping[c] = {}

(***************************************************************************)
(* context_cleaner.ContextCleaner                                          *)
(*                                                                         *)
(* A message is what the cleaner reads of it for the structure of its      *)
(* output: id, type and reply_to_message_id (0: None, no reply).  Ids are   *)
(* unique within a chat (the Message model of an export); a reply target   *)
(* may be any id of the chat, the message's own id, or Dangling, an id no  *)
(* message has.  An output line is the message it renders (its position in *)
(* the chat and its id) and its indentation in units of two spaces; Blank  *)
(* is the empty separator line.                                            *)
(***************************************************************************)
MaxMsgs == 3
MsgIds == 1..MaxMsgs
Dangling == MaxMsgs + 1
RecursionLimit == MaxMsgs + 2

CtxMessages == [id : MsgIds, type : {"message", "service"}, reply : 0..Dangling]

UniqueIds(msgs) ==
    \A j, k \in 1..Len(msgs) : msgs[j].id = msgs[k].id => j = k

Chats == {q \in SeqsUpTo(CtxMessages, MaxMsgs) : UniqueIds(q)}

Blank == [idx |-> 0, id |-> 0, indent |-> 0]
Line(msgs, k, depth) == [idx |-> k, id |-> msgs[k].id, indent |-> depth]

\* msg_lookup = {msg["id"]: msg for msg in messages}: the position of the
\* message found under an id (the last one with it), 0 when there is none.
Lookup(msgs, id) ==
    LET S == {k \in 1..Len(msgs) : msgs[k].id = id} IN
    IF S = {} THEN 0 ELSE CHOOSE k \in S : \A j \in S : j <= k

RECURSIVE Reverse(_)
Reverse(q) == IF q = <<>> THEN <<>> ELSE Append(Reverse(Tail(q)), Head(q))

RECURSIVE Insert(_, _)
Insert(x, q) ==
    IF q = <<>> THEN <<x>>
    ELSE IF x < Head(q) THEN <<x>> \o q
    ELSE <<Head(q)>> \o Insert(x, Tail(q))

\* The replies left in the order the graph lists them.
SortedAsIs(q) == q

\* sorted(replies)
RECURSIVE Sorted(_)
Sorted(q) == IF q = <<>> THEN <<>> ELSE Insert(Head(q), Sorted(Tail(q)))

Positions(msgs) == [k \in 1..Len(msgs) |-> k]

\* _clean_level_1: one line and one blank per message of type "message".
RECURSIVE Level1Lines(_, _)
Level1Lines(msgs, k) ==
    IF k > Len(msgs) THEN <<>>
    ELSE (IF msgs[k].type = "message" THEN <<Line(msgs, k, 0), Blank>> ELSE <<>>)
         \o Level1Lines(msgs, k + 1)

\* A formatting loop that stops at the first message of the chain that is
\* not ordinary, instead of passing over it.
RECURSIVE ChainLinesBreak(_, _, _)
ChainLinesBreak(msgs, chain, i) ==
    IF i > Len(chain) THEN <<>>
    ELSE IF msgs[chain[i]].type # "message" THEN <<>>
    ELSE <<Line(msgs, chain[i], i - 1)>> \o ChainLinesBreak(msgs, chain, i + 1)

\* The formatting loop of _process_reply_chain over the reversed chain:
\* i counts every message of the chain, rendered or not.
RECURSIVE ChainLines(_, _, _)
ChainLines(msgs, chain, i) ==
    IF i > Len(chain) THEN <<>>
    ELSE (IF msgs[chain[i]].type = "message"
          THEN <<Line(msgs, chain[i], i - 1)>> ELSE <<>>)
         \o ChainLines(msgs, chain, i + 1)

\* Roots that also take in the messages whose reply target is absent.
RootsWithOrphans(msgs) ==
    SelectSeq(Positions(msgs),
              LAMBDA k : msgs[k].reply = 0 \/ Lookup(msgs, msgs[k].reply) = 0)

\* root_messages = [msg for msg in messages if not msg.get("reply_to_message_id")]
Roots(msgs) == SelectSeq(Positions(msgs), LAMBDA k : msgs[k].reply = 0)

\* conversation_graph.get(msg_id, []): the ids of the messages replying to
\* msg_id, in source order.
Replies(msgs, id) ==
    LET at == SelectSeq(Positions(msgs), LAMBDA k : msgs[k].reply # 0 /\ msgs[k].reply = id)
    IN [j \in 1..Len(at) |-> msgs[at[j]].id]

Frame(id, depth) == [id |-> id, depth |-> depth, at |-> "enter", replies |-> <<>>, next |-> 1]

\* ContextCleaner(level).clean(chat_info) is entered.
CtxCall ==
    /\ cx_pc = "idle"
    /\ \E l \in VALID_CLEANING_LEVELS, q \in Chats :
          /\ cx_level' = l
          /\ cx_msgs' = q
          /\ cx_pc' = CASE l = 1 -> "level1" [] l = 2 -> "level2" [] OTHER -> "level3"
    /\ cx_i' = 1
    /\ UNCHANGED <<cx_processed, cx_cur, cx_chain, cx_stack, cx_lines>>
    /\ UNCHANGED <<cleanVars, parseVars, anonVars, outVars, fmtVars, batchVars>>

\* _clean_level_1
CtxLevel1 ==
    /\ cx_pc = "level1"
    /\ cx_lines' = Level1Lines(cx_msgs, 1)
    /\ cx_pc' = "done"
    /\ UNCHANGED <<cx_level, cx_msgs, cx_i, cx_processed, cx_cur, cx_chain, cx_stack>>
    /\ UNCHANGED <<cleanVars, parseVars, anonVars, outVars, fmtVars, batchVars>>

\* A loop over the messages whose visited set is local to each chain.
CtxLevel2NextFreshVisited ==
    /\ cx_pc = "level2"
    /\ IF cx_i > Len(cx_msgs)
       THEN cx_pc' = "done" /\ UNCHANGED <<cx_i, cx_cur, cx_chain, cx_processed>>
       ELSE /\ cx_pc' = "walk" /\ cx_cur' = cx_i /\ cx_chain' = <<>>
            /\ cx_processed' = {}
            /\ UNCHANGED cx_i
    /\ UNCHANGED <<cx_level, cx_msgs, cx_stack, cx_lines>>
    /\ UNCHANGED <<cleanVars, parseVars, anonVars, outVars, fmtVars, batchVars>>

\* _clean_level_2, `for message in messages`: a processed message is passed
\* over, another one starts _process_reply_chain; after the last, return.
CtxLevel2Next ==
    /\ cx_pc = "level2"
    /\ IF cx_i > Len(cx_msgs)
       THEN cx_pc' = "done" /\ UNCHANGED <<cx_i, cx_cur, cx_chain>>
       ELSE IF cx_msgs[cx_i].id \in cx_processed
       THEN cx_i' = cx_i + 1 /\ UNCHANGED <<cx_pc, cx_cur, cx_chain>>
       ELSE cx_pc' = "walk" /\ cx_cur' = cx_i /\ cx_chain' = <<>> /\ UNCHANGED cx_i
    /\ UNCHANGED <<cx_level, cx_msgs, cx_processed, cx_stack, cx_lines>>
    /\ UNCHANGED <<cleanVars, parseVars, anonVars, outVars, fmtVars, batchVars>>

\* A walk step that goes on without looking at `processed`.
CtxWalkStepNoVisited ==
    /\ cx_pc = "walk"
    /\ cx_chain' = Append(cx_chain, cx_cur)
    /\ cx_processed' = cx_processed \cup {cx_msgs[cx_cur].id}
    /\ LET reply_to_id == cx_msgs[cx_cur].reply IN
          IF reply_to_id # 0 /\ Lookup(cx_msgs, reply_to_id) # 0
          THEN cx_cur' = Lookup(cx_msgs, reply_to_id) /\ UNCHANGED cx_pc
          ELSE cx_pc' = "format" /\ UNCHANGED cx_cur
    /\ UNCHANGED <<cx_level, cx_msgs, cx_i, cx_stack, cx_lines>>
    /\ UNCHANGED <<cleanVars, parseVars, anonVars, outVars, fmtVars, batchVars>>

\* _process_reply_chain, one turn of `while current_msg`.
CtxWalkStep ==
    /\ cx_pc = "walk"
    /\ IF cx_msgs[cx_cur].id \in cx_processed
       THEN cx_pc' = "format" /\ UNCHANGED <<cx_chain, cx_processed, cx_cur>>
       ELSE /\ cx_chain' = Append(cx_chain, cx_cur)
            /\ cx_processed' = cx_processed \cup {cx_msgs[cx_cur].id}
            /\ LET reply_to_id == cx_msgs[cx_cur].reply IN
                  IF reply_to_id # 0 /\ Lookup(cx_msgs, reply_to_id) # 0
                  THEN cx_cur' = Lookup(cx_msgs, reply_to_id) /\ UNCHANGED cx_pc
                  ELSE cx_pc' = "format" /\ UNCHANGED cx_cur
    /\ UNCHANGED <<cx_level, cx_msgs, cx_i, cx_stack, cx_lines>>
    /\ UNCHANGED <<cleanVars, parseVars, anonVars, outVars, fmtVars, batchVars>>

\* _process_reply_chain, after the walk: the chain is reversed and formatted;
\* back in _clean_level_2 its lines are added, with a blank if there are any.
CtxFormatChain ==
    /\ cx_pc = "format"
    /\ LET chain_lines == ChainLines(cx_msgs, Reverse(cx_chain), 1) IN
          cx_lines' = cx_lines \o chain_lines
                        \o (IF chain_lines # <<>> THEN <<Blank>> ELSE <<>>)
    /\ cx_i' = cx_i + 1
    /\ cx_pc' = "level2"
    /\ UNCHANGED <<cx_level, cx_msgs, cx_processed, cx_cur, cx_chain, cx_stack>>
    /\ UNCHANGED <<cleanVars, parseVars, anonVars, outVars, fmtVars, batchVars>>

\* _clean_level_3, `for root_msg in root_messages`: process_message(root id)
\* is called; after the last root, return.
CtxLevel3Next ==
    /\ cx_pc = "level3"
    /\ IF cx_i > Len(Roots(cx_msgs))
       THEN cx_pc' = "done" /\ UNCHANGED cx_stack
       ELSE /\ cx_pc' = "thread"
            /\ cx_stack' = <<Frame(cx_msgs[Roots(cx_msgs)[cx_i]].id, 0)>>
    /\ UNCHANGED <<cx_level, cx_msgs, cx_i, cx_processed, cx_cur, cx_chain, cx_lines>>
    /\ UNCHANGED <<cleanVars, parseVars, anonVars, outVars, fmtVars, batchVars>>

\* An entry that emits no line for a message that is not ordinary but still
\* goes on to its replies.
CtxEnterThroughAnyType ==
    /\ cx_pc = "thread"
    /\ cx_stack # <<>>
    /\ LET n == Len(cx_stack)
           f == cx_stack[n]
           k == Lookup(cx_msgs, f.id)
       IN /\ f.at = "enter"
          /\ IF k = 0
             THEN cx_stack' = SubSeq(cx_stack, 1, n - 1) /\ UNCHANGED cx_lines
             ELSE /\ cx_lines' = IF cx_msgs[k].type = "message"
                                 THEN Append(cx_lines, Line(cx_msgs, k, f.depth))
                                 ELSE cx_lines
                  /\ cx_stack' = [cx_stack EXCEPT ![n] =
                        [f EXCEPT !.at = "loop",
                                  !.replies = Sorted(Replies(cx_msgs, f.id))]]
    /\ UNCHANGED <<cx_pc, cx_level, cx_msgs, cx_i, cx_processed, cx_cur, cx_chain>>
    /\ UNCHANGED <<cleanVars, parseVars, anonVars, outVars, fmtVars, batchVars>>

\* process_message(msg_id, depth), from its entry to its loop over the
\* replies: an id that is not in msg_lookup, or whose message is not of type
\* "message", returns at once; otherwise the line is emitted.
CtxEnter ==
    /\ cx_pc = "thread"
    /\ cx_stack # <<>>
    /\ LET n == Len(cx_stack)
           f == cx_stack[n]
           k == Lookup(cx_msgs, f.id)
       IN /\ f.at = "enter"
          /\ IF k = 0 \/ cx_msgs[k].type # "message"
             THEN cx_stack' = SubSeq(cx_stack, 1, n - 1) /\ UNCHANGED cx_lines
             ELSE /\ cx_lines' = Append(cx_lines, Line(cx_msgs, k, f.depth))
                  /\ cx_stack' = [cx_stack EXCEPT ![n] =
                        [f EXCEPT !.at = "loop",
                                  !.replies = Sorted(Replies(cx_msgs, f.id))]]
    /\ UNCHANGED <<cx_pc, cx_level, cx_msgs, cx_i, cx_processed, cx_cur, cx_chain>>
    /\ UNCHANGED <<cleanVars, parseVars, anonVars, outVars, fmtVars, batchVars>>

\* process_message, `for reply_id in sorted(replies)`: the next reply is
\* entered one level deeper (RecursionError beyond the interpreter's limit);
\* after the last one the call returns.
CtxReplies ==
    /\ cx_pc = "thread"
    /\ cx_stack # <<>>
    /\ LET n == Len(cx_stack)
           f == cx_stack[n]
       IN /\ f.at = "loop"
          /\ IF f.next > Len(f.replies)
             THEN cx_stack' = SubSeq(cx_stack, 1, n - 1) /\ UNCHANGED cx_pc
             ELSE IF n >= RecursionLimit
             THEN cx_pc' = "RecursionError" /\ UNCHANGED cx_stack
             ELSE /\ cx_stack' = Append([cx_stack EXCEPT ![n].next = f.next + 1],
                                        Frame(f.replies[f.next], f.depth + 1))
                  /\ UNCHANGED cx_pc
    /\ UNCHANGED <<cx_level, cx_msgs, cx_i, cx_processed, cx_cur, cx_chain, cx_lines>>
    /\ UNCHANGED <<cleanVars, parseVars, anonVars, outVars, fmtVars, batchVars>>

\* _clean_level_3, after _process_conversation_thread has returned: the
\* thread separator is added and the next root is taken.
CtxThreadDone ==
    /\ cx_pc = "thread"
    /\ cx_stack = <<>>
    /\ cx_lines' = Append(cx_lines, Blank)
    /\ cx_i' = cx_i + 1
    /\ cx_pc' = "level3"
    /\ UNCHANGED <<cx_level, cx_msgs, cx_processed, cx_cur, cx_chain, cx_stack>>
    /\ UNCHANGED <<cleanVars, parseVars, anonVars, outVars, fmtVars, batchVars>>

CtxInit == CleanIdle /\ ParseIdle /\ CtxIdle /\ AnonIdle /\ OutIdle /\ FmtIdle /\ BatchIdle
CtxNext ==
    \/ CtxCall
    \/ CtxLevel1
    \/ CtxLevel2Next
    \/ CtxWalkStep
    \/ CtxFormatChain
    \/ CtxLevel3Next
    \/ CtxEnter
    \/ CtxReplies
    \/ CtxThreadDone
SpecCtx == CtxInit /\ [][CtxNext]_vars

\* clean() is a synchronous call: once entered it runs to its return.
SpecCtxFair == SpecCtx /\ WF_vars(CtxNext)

(***************************************************************************)
(* Claims about the context cleaner                                        *)
(***************************************************************************)
\* The block of the output a line is in: the number of blank lines before it.
BlockOf(p) == Cardinality({j \in 1..p : cx_lines[j] = Blank})

\* The positions in the output of the lines that render message k.
LinesOf(k) == {p \in 1..Len(cx_lines) : cx_lines[p].idx = k}

Rendered(k) == LinesOf(k) # {}

\* The reply chain from message k leaves the chat: k or a message it
\* replies to, directly or through others, has a target no message has.
RECURSIVE ReachesAbsent(_, _, _)
ReachesAbsent(msgs, k, fuel) ==
    LET r == msgs[k].reply IN
    IF r = 0 THEN FALSE
    ELSE IF Lookup(msgs, r) = 0 THEN TRUE
    ELSE IF fuel = 0 THEN FALSE
    ELSE ReachesAbsent(msgs, Lookup(msgs, r), fuel - 1)

\* Following the replies from message k comes back to k.
RECURSIVE OnCycle(_, _, _, _)
OnCycle(msgs, k, cur, fuel) ==
    LET t == Lookup(msgs, msgs[cur].reply) IN
    IF msgs[cur].reply = 0 \/ t = 0 THEN FALSE
    ELSE IF t = k THEN TRUE
    ELSE IF fuel = 0 THEN FALSE
    ELSE OnCycle(msgs, k, t, fuel - 1)

C5_IdInOneChainBlock ==
    cx_level = 2 =>
        \A a, b \in 1..Len(cx_lines) :
            (cx_lines[a] # Blank /\ cx_lines[a].id = cx_lines[b].id)
                => BlockOf(a) = BlockOf(b)

\* A level-2 pass has returned on a chat where two rendered messages reply to
\* the same rendered message, one of them chained under it.
C5_Witness ==
    /\ cx_pc = "done"
    /\ cx_level = 2
    /\ \E t, j, k \in 1..Len(cx_msgs) :
          /\ j # k /\ j # t /\ k # t
          /\ cx_msgs[j].reply = cx_msgs[t].id
          /\ cx_msgs[k].reply = cx_msgs[t].id
          /\ Rendered(t) /\ Rendered(j) /\ Rendered(k)
          /\ \E p \in LinesOf(j) : cx_lines[p].indent = 1

\* The chat is in chronological source order: ids grow along the list.
Chronological(msgs) ==
    \A j, k \in 1..Len(msgs) : j < k => msgs[j].id < msgs[k].id

\* C6: at level 2, for a chat in chronological source order, a reply whose
\* target is present is rendered in the same chain block as its target, after
\* it and indented two spaces (one unit) deeper than it.
C6_ReplyRenderedUnderTarget ==
    (cx_pc = "done" /\ cx_level = 2 /\ Chronological(cx_msgs)) =>
        \A t, k \in 1..Len(cx_msgs) :
            (/\ t < k
             /\ cx_msgs[k].reply = cx_msgs[t].id
             /\ cx_msgs[t].type = "message"
             /\ cx_msgs[k].type = "message")
                => \E a \in LinesOf(t), b \in LinesOf(k) :
                      /\ a < b
                      /\ BlockOf(a) = BlockOf(b)
                      /\ cx_lines[b].indent = cx_lines[a].indent + 1

\* C7: at level 3 a message whose reply target is absent from the chat, and
\* every message replying to it directly or through others, produces no line,
\* and no error is raised.
C7_DanglingReplyNotRendered ==
    cx_level = 3 =>
        /\ cx_pc # "RecursionError"
        /\ \A k \in 1..Len(cx_msgs) :
              ReachesAbsent(cx_msgs, k, Len(cx_msgs)) => ~Rendered(k)

\* A level-3 pass has returned on a chat of three ordinary messages: one is a
\* rendered root, one replies to an absent id, one replies to that reply.
C7_Witness ==
    /\ cx_pc = "done"
    /\ cx_level = 3
    /\ \E r, d, k \in 1..Len(cx_msgs) :
          /\ cx_msgs[r].reply = 0 /\ Rendered(r)
          /\ cx_msgs[d].reply = Dangling /\ cx_msgs[d].type = "message"
          /\ cx_msgs[k].reply = cx_msgs[d].id /\ cx_msgs[k].type = "message"
          /\ k # d

(***************************************************************************)
(* privacy_cleaner.PrivacyCleaner.clean, size_cleaner.SizeCleaner.clean    *)
(*                                                                         *)
(* A message is what the two cleaners read of a model_dump() for sender,   *)
(* text and reply: id, type, from_user, from_id, reply_to_message_id (0:   *)
(* None) and text, a string given as the sequence of its characters.  The  *)
(* message at position k of a chat has id k; its display name, when it has *)
(* one, is OutNames[k] and its from_id, when it has one, OutUserIds[k].    *)
(* Dates, edits, entities, reactions and media fields are left out: an     *)
(* output line is given by its sender label, text and reply parts.         *)
(***************************************************************************)
REPLY_TEXT_PREVIEW_LENGTH == 50
MaxOutMsgs == 2

OutNames == <<"Alice", "Bob", "Carol">>
OutUserIds == <<"user123", "user6", "user11726592">>
OutTexts ==
    {<<>>,
     <<"h", "i">>,
     <<"o", "k">>,
     <<" ", "h", "e", "y", " ">>,
     <<"h", "e", "l", "l", "o", " ", "b", "a", "c", "k">>}

OutMessagesAt(k) ==
    [id : {k}, type : {"message", "service"},
     from_user : {None, OutNames[k]}, from_id : {None, OutUserIds[k]},
     reply_to_message_id : 0..(MaxOutMsgs + 1), text : OutTexts]

RECURSIVE OutChatsOfLen(_)
OutChatsOfLen(n) ==
    IF n = 0 THEN {<<>>}
    ELSE {Append(q, m) : q \in OutChatsOfLen(n - 1), m \in OutMessagesAt(n)}

\* The chats of 1 to n messages.
OutChats(n) == UNION {OutChatsOfLen(j) : j \in 1..n}

\* str.strip() and its two halves.
RECURSIVE LStrip(_)
LStrip(t) == IF t # <<>> /\ Head(t) = " " THEN LStrip(Tail(t)) ELSE t

RECURSIVE RStrip(_)
RStrip(t) ==
    IF t # <<>> /\ t[Len(t)] = " " THEN RStrip(SubSeq(t, 1, Len(t) - 1)) ELSE t

Strip(t) == RStrip(LStrip(t))

\* text[:n]
Prefix(t, n) == SubSeq(t, 1, IF Len(t) < n THEN Len(t) ELSE n)

\* A string as a label; str(None) is "None".
Str(v) == [prefix |-> v, hex |-> <<>>]

\* `not v` for an Optional[str] field.
Truthy(v) == v \notin {"", None}

\* The keys of message.model_dump(): every field of Message, the ones that
\* are None included.
ModelDumpKeys == {"id", "type", "from_user", "from_id", "reply_to_message_id", "text"}

\* message.get(key, default), formatted into an f-string.
GetLabel(message, key, default) ==
    IF key \in ModelDumpKeys THEN Str(message[key]) ELSE default

\* message.get(key) or fallback, formatted into an f-string.
OrLabel(message, key, fallback) ==
    IF Truthy(message[key]) THEN Str(message[key]) ELSE fallback

NoPreview == [shown |-> FALSE, sender |-> NoLabel, text |-> <<>>]
NoLine == [kind |-> "none", idx |-> 0, sender |-> NoLabel, sender_id |-> NoLabel,
           text |-> <<>>, preview |-> NoPreview, marker |-> "", target |-> 0]
HeaderLine == [NoLine EXCEPT !.kind = "header"]
BlankLine == [NoLine EXCEPT !.kind = "blank"]
MsgLine(k, sender, text) ==
    [NoLine EXCEPT !.kind = "msg", !.idx = k, !.sender = sender, !.text = text]

\* What a _clean_level_N call gives: the string it returns (NoLine: ""), the
\* user_mapping afterwards, or the exception that leaves it.
Cleaned(line, mapping) == [exc |-> None, line |-> line, mapping |-> mapping]
CleanRaises(type, mapping) == [exc |-> type, line |-> NoLine, mapping |-> mapping]

\* A reply test that looks at reply_to_message_id alone.
ResolvesNoLookup(msgs, message) == message.reply_to_message_id # 0

\* message.get("reply_to_message_id") and message["reply_to_message_id"] in messages_dict
Resolves(msgs, message) ==
    /\ message.reply_to_message_id # 0
    /\ Lookup(msgs, message.reply_to_message_id) # 0

\* A sender label that falls back to the raw from_id, as the size cleaner's does.
PrivacySenderRawFallback(mapping, message) ==
    [label |-> OrLabel(message, "from_user", Str(message.from_id)),
     mapping |-> mapping]

\* "Add sender (anonymized)" of _clean_level_1 / _clean_level_2: the label
\* before the colon, and user_mapping afterwards.
PrivacySender(mapping, message) ==
    LET a == IF Truthy(message.from_id)
             THEN AnonymizeUserId(mapping, message.from_id)
             ELSE [ret |-> Anonymous, mapping |-> mapping]
    IN [label |-> GetLabel(message, "from_user", a.ret), mapping |-> a.mapping]

\* PrivacyCleaner._clean_level_1
PrivacyLevel1(msgs, k, mapping) ==
    LET message == msgs[k] IN
    IF message.type # "message" THEN Cleaned(NoLine, mapping)
    ELSE LET s == PrivacySender(mapping, message)
             text == Strip(message.text)
         IN IF text = <<>> THEN Cleaned(NoLine, s.mapping)
            ELSE Cleaned(MsgLine(k, s.label, text), s.mapping)

\* "Add reply context" of _clean_level_2 for a message whose reply resolves:
\* reply_to is messages_dict[...] (KeyError when the id is no key).
ReplyPreview(msgs, message, mapping) ==
    LET t == Lookup(msgs, message.reply_to_message_id) IN
    IF t = 0 THEN [exc |-> "KeyError", preview |-> NoPreview, mapping |-> mapping]
    ELSE LET reply_to == msgs[t]
             a == IF Truthy(reply_to.from_user)
                  THEN [ret |-> Str(reply_to.from_user), mapping |-> mapping]
                  ELSE AnonymizeUserId(mapping, reply_to.from_id)
             reply_text == Prefix(reply_to.text, REPLY_TEXT_PREVIEW_LENGTH)
         IN [exc |-> None,
             preview |-> IF reply_text # <<>>
                         THEN [shown |-> TRUE, sender |-> a.ret, text |-> reply_text]
                         ELSE NoPreview,
             mapping |-> a.mapping]

\* PrivacyCleaner._clean_level_2
PrivacyLevel2(msgs, k, mapping) ==
    LET message == msgs[k] IN
    IF message.type # "message" THEN Cleaned(NoLine, mapping)
    ELSE LET r == IF Resolves(msgs, message)
                  THEN ReplyPreview(msgs, message, mapping)
                  ELSE [exc |-> None, preview |-> NoPreview, mapping |-> mapping]
             s == PrivacySender(r.mapping, message)
         IN IF r.exc # None THEN CleanRaises(r.exc, mapping)
            ELSE Cleaned([MsgLine(k, s.label, Strip(message.text))
                             EXCEPT !.preview = r.preview],
                         s.mapping)

\* "Add sender (keep original identifiers)" of _clean_level_3: the name part
\* and the id part of the label.
PrivacySenderLevel3(message) ==
    LET user_name == message.from_user
        user_id == message.from_id
    IN IF Truthy(user_name) /\ Truthy(user_id)
       THEN [sender |-> Str(user_name), sender_id |-> Str(user_id)]
       ELSE IF Truthy(user_name) THEN [sender |-> Str(user_name), sender_id |-> NoLabel]
       ELSE IF Truthy(user_id) THEN [sender |-> Str(user_id), sender_id |-> NoLabel]
       ELSE [sender |-> Str("Unknown"), sender_id |-> NoLabel]

\* PrivacyCleaner._clean_level_3
PrivacyLevel3(msgs, k, mapping) ==
    LET message == msgs[k] IN
    IF message.type \notin {"message", "service"} THEN Cleaned(NoLine, mapping)
    ELSE LET s == PrivacySenderLevel3(message)
             replies == Resolves(msgs, message)
         IN Cleaned([MsgLine(k, s.sender, Strip(message.text))
                        EXCEPT !.sender_id = s.sender_id,
                               !.marker = IF replies THEN "Reply to ID" ELSE "",
                               !.target = IF replies THEN message.reply_to_message_id ELSE 0],
                    mapping)

\* A length test that lets only texts longer than 3 characters through.
LongEnoughOver3(text) == Len(text) > 3

\* `len(text) < 3` of _clean_level_1, negated.
LongEnough(text) == ~(Len(text) < 3)

\* A level 1 that emits every non-empty text, whatever its length.
SizeLevel1NoLengthCheck(msgs, k) ==
    LET message == msgs[k]
        text == Strip(message.text)
    IN IF message.type # "message" \/ text = <<>> THEN NoLine
       ELSE MsgLine(k, NoLabel, text)

\* SizeCleaner._clean_level_1.  After the two early returns text is not
\* empty, so the branch that would emit the link and mention entities is
\* never taken.
SizeLevel1(msgs, k) ==
    LET message == msgs[k]
        text == Strip(message.text)
    IN IF message.type # "message" THEN NoLine
       ELSE IF text = <<>> THEN NoLine
       ELSE IF ~LongEnough(text) THEN NoLine
       ELSE IF Len(text) > 2 THEN MsgLine(k, NoLabel, text)
       ELSE NoLine

\* sender = message.get("from_user") or message.get("from_id", "Unknown")
SizeSender(message) ==
    OrLabel(message, "from_user", GetLabel(message, "from_id", Str("Unknown")))

\* SizeCleaner._clean_level_2
SizeLevel2(msgs, k) ==
    LET message == msgs[k] IN
    IF message.type # "message" THEN NoLine
    ELSE MsgLine(k, SizeSender(message), Strip(message.text))

\* SizeCleaner._clean_level_3; messages_dict is filled at level 3.
SizeLevel3(msgs, k) ==
    LET message == msgs[k] IN
    IF message.type \notin TypeGate("size", 3) THEN NoLine
    ELSE [MsgLine(k, SizeSender(message), Strip(message.text))
            EXCEPT !.marker = IF Resolves(msgs, message) THEN "[REPLY]" ELSE ""]

\* The level dispatch in the message loop of clean().
CleanLevel(approach, level, msgs, k, mapping) ==
    CASE approach = "privacy" /\ level = 1 -> PrivacyLevel1(msgs, k, mapping)
      [] approach = "privacy" /\ level = 2 -> PrivacyLevel2(msgs, k, mapping)
      [] approach = "privacy" /\ level = 3 -> PrivacyLevel3(msgs, k, mapping)
      [] approach = "size" /\ level = 1 -> Cleaned(SizeLevel1(msgs, k), mapping)
      [] approach = "size" /\ level = 2 -> Cleaned(SizeLevel2(msgs, k), mapping)
      [] approach = "size" /\ level = 3 -> Cleaned(SizeLevel3(msgs, k), mapping)
      [] OTHER -> Cleaned(NoLine, mapping)

\* The chat header: privacy always, size from level 2 on.
Header(approach, level) ==
    IF approach = "privacy" THEN <<HeaderLine, HeaderLine, HeaderLine, BlankLine>>
    ELSE IF level >= 2 THEN <<HeaderLine, HeaderLine, BlankLine>>
    ELSE <<>>

\* `for message in chat_info.messages` of clean(), from message k on: a
\* non-empty cleaned_msg is appended (privacy adds an empty line after it).
RECURSIVE CleanLoop(_, _, _, _, _, _)
CleanLoop(approach, level, msgs, k, mapping, lines) ==
    IF k > Len(msgs) THEN [ran |-> TRUE, lines |-> lines, exc |-> NoExc]
    ELSE LET c == CleanLevel(approach, level, msgs, k, mapping) IN
         IF c.exc # None
         THEN [ran |-> TRUE, lines |-> <<>>, exc |-> [exc |-> c.exc, msg |-> None]]
         ELSE CleanLoop(approach, level, msgs, k + 1, c.mapping,
                        lines \o (IF c.line.kind = "none" THEN <<>>
                                  ELSE IF approach = "privacy" THEN <<c.line, BlankLine>>
                                  ELSE <<c.line>>))

\* get_cleaner(approach, level).clean(chat_info): a new cleaner, with an
\* empty user_mapping, cleans the chat.
Clean(approach, level, msgs) ==
    CleanLoop(approach, level, msgs, 1, EmptyMapping, Header(approach, level))

\* A chat is parsed and an approach chosen for it.
OutOpen ==
    /\ ou_approach = None
    /\ cx_pc = "idle"
    /\ \E a \in {"privacy", "size"}, q \in OutChats(MaxOutMsgs) :
          /\ ou_approach' = a
          /\ ou_chat' = q
    /\ UNCHANGED ou_out
    /\ UNCHANGED <<cleanVars, parseVars, ctxVars, anonVars, fmtVars, batchVars>>

\* The chat is cleaned at a level it was not cleaned at yet.
OutClean ==
    /\ ou_approach # None
    /\ \E l \in VALID_CLEANING_LEVELS :
          /\ ~ou_out[l].ran
          /\ ou_out' = [ou_out EXCEPT ![l] = Clean(ou_approach, l, ou_chat)]
    /\ UNCHANGED <<ou_approach, ou_chat>>
    /\ UNCHANGED <<cleanVars, parseVars, ctxVars, anonVars, fmtVars, batchVars>>

\* The chat is cleaned by the context cleaner instead.
OutContext == ou_approach = None /\ CtxNext

OutInit == CleanIdle /\ ParseIdle /\ CtxIdle /\ AnonIdle /\ OutIdle /\ FmtIdle /\ BatchIdle
OutNext == OutOpen \/ OutClean \/ OutContext
SpecOut == OutInit /\ [][OutNext]_vars

(***************************************************************************)
(* Claims about the privacy and size cleaners' output                      *)
(***************************************************************************)
\* The lines of the level-l output that render a message.
MsgLines(l) == SelectSeq(ou_out[l].lines, LAMBDA ln : ln.kind = "msg")

OrdinaryWithText(m) == m.type = "message" /\ Strip(m.text) # <<>>

\* The label C11 expects: the display name, else the pseudonym of from_id
\* ("User_" and 12 hex characters of its digest), else "Anonymous".
ExpectedLabel(m) ==
    IF m.from_user # None THEN Str(m.from_user)
    ELSE IF m.from_id # None
    THEN [prefix |-> "User_", hex |-> SubSeq(Sha256Hex(m.from_id), 1, 12)]
    ELSE [prefix |-> "Anonymous", hex |-> <<>>]

\* C11: at privacy level 1 every ordinary message with non-empty trimmed
\* text gives the line "<label>: <text>", the label being the display name
\* when there is one, otherwise the pseudonym of from_id when there is one,
\* otherwise "Anonymous".
C11_PrivacyLevel1Label ==
    (ou_approach = "privacy" /\ ou_out[1].ran) =>
        \A k \in 1..Len(ou_chat) :
            OrdinaryWithText(ou_chat[k]) =>
                \E p \in 1..Len(ou_out[1].lines) :
                    ou_out[1].lines[p] =
                        MsgLine(k, ExpectedLabel(ou_chat[k]), Strip(ou_chat[k].text))

\* What the level-1 label is: the from_user field as formatted, "None" for
\* a message without display name, whether it has a from_id or not.
C11_LabelIsFromUserField ==
    (ou_approach = "privacy" /\ ou_out[1].ran) =>
        \A k \in 1..Len(ou_chat) :
            OrdinaryWithText(ou_chat[k]) =>
                \E p \in 1..Len(ou_out[1].lines) :
                    ou_out[1].lines[p] =
                        MsgLine(k, Str(ou_chat[k].from_user), Strip(ou_chat[k].text))

\* The raw from_id values of a chat, as labels.
RawIdLabels(msgs) ==
    {Str(msgs[k].from_id) : k \in {j \in 1..Len(msgs) : msgs[j].from_id # None}}

\* C12: in the privacy level-1 and level-2 output no sender label and no
\* reply-preview sender label is a raw from_id of the chat, and no line has
\* an id part next to its label.
C12_NoRawIdBelowLevel3 ==
    ou_approach = "privacy" =>
        \A l \in {1, 2} : \A p \in 1..Len(ou_out[l].lines) :
            LET ln == ou_out[l].lines[p] IN
            /\ ln.sender \notin RawIdLabels(ou_chat)
            /\ ln.sender_id = NoLabel
            /\ ln.preview.sender \notin RawIdLabels(ou_chat)

\* A privacy session at all three levels on a chat whose first message has a
\* from_id and no display name and is replied to by the second: level 2
\* previews it under its pseudonym, level 3 shows the raw id.
C12_Witness ==
    /\ ou_approach = "privacy"
    /\ \A l \in {1, 2, 3} : ou_out[l].ran
    /\ Len(ou_chat) = 2
    /\ ou_chat[1].from_user = None /\ ou_chat[1].from_id = "user123"
    /\ \E p \in 1..Len(ou_out[2].lines) :
          /\ ou_out[2].lines[p].idx = 2
          /\ ou_out[2].lines[p].preview.shown
          /\ ou_out[2].lines[p].preview.sender =
                [prefix |-> "User_", hex |-> <<14, 6, 0, 6, 14, 3, 8, 11, 0, 13, 8, 12>>]
    /\ \E p \in 1..Len(ou_out[1].lines) : ou_out[1].lines[p].idx = 1
    /\ \E p \in 1..Len(ou_out[3].lines) :
          ou_out[3].lines[p].idx = 1 /\ ou_out[3].lines[p].sender = Str("user123")

\* The lines C14 expects from size level 1: the trimmed text of each ordinary
\* message whose trimmed text has at least 3 characters, in source order.
RECURSIVE ExpectedSizeLevel1(_, _)
ExpectedSizeLevel1(msgs, k) ==
    IF k > Len(msgs) THEN <<>>
    ELSE (IF msgs[k].type = "message" /\ Len(Strip(msgs[k].text)) >= 3
          THEN <<MsgLine(k, NoLabel, Strip(msgs[k].text))>> ELSE <<>>)
         \o ExpectedSizeLevel1(msgs, k + 1)

Level1WithinLevel3 ==
    (ou_out[1].ran /\ ou_out[3].ran) =>
        \A p \in 1..Len(ou_out[1].lines) :
            LET ln == ou_out[1].lines[p] IN
            (ln.kind = "msg" /\ ln.text # <<>>) =>
                \E q \in 1..Len(ou_out[3].lines) :
                    /\ ou_out[3].lines[q].idx = ln.idx
                    /\ ou_out[3].lines[q].text = ln.text

\* The messages the context cleaner shows at level 1.
ShownAtContextLevel1(msgs) ==
    {Level1Lines(msgs, 1)[p].idx : p \in 1..Len(Level1Lines(msgs, 1))} \ {0}

\* C13: for each approach, every message whose text is visible in the
\* level-1 output is visible, with its text, in the level-3 output.
C13_Level1WithinLevel3 ==
    /\ Level1WithinLevel3
    /\ (cx_pc = "done" /\ cx_level = 3) =>
          \A k \in ShownAtContextLevel1(cx_msgs) : Rendered(k)

\* The reply chain from message k leads, through ordinary messages only, to
\* a message that replies to nothing.
RECURSIVE AttachedToRoot(_, _, _)
AttachedToRoot(msgs, k, fuel) ==
    /\ msgs[k].type = "message"
    /\ \/ msgs[k].reply = 0
       \/ /\ Lookup(msgs, msgs[k].reply) # 0
          /\ fuel > 0
          /\ AttachedToRoot(msgs, Lookup(msgs, msgs[k].reply), fuel - 1)

\* C13, amended: the privacy and size cleaners show at level 3 every message
\* text they show at level 1; the context cleaner shows at level 3 the
\* level-1 messages whose reply chain leads through ordinary messages to a
\* message without reply target.
C13_Level1WithinLevel3WhenAttached ==
    /\ Level1WithinLevel3
    /\ (cx_pc = "done" /\ cx_level = 3) =>
          \A k \in ShownAtContextLevel1(cx_msgs) :
              AttachedToRoot(cx_msgs, k, Len(cx_msgs)) => Rendered(k)

\* Context level 3 has returned on a chat of three ordinary messages, all
\* shown at level 1: a root and its reply are rendered, the third, replying
\* to an absent id, is not.
C13_Witness ==
    /\ cx_pc = "done" /\ cx_level = 3
    /\ ShownAtContextLevel1(cx_msgs) = {1, 2, 3}
    /\ cx_msgs[1].reply = 0 /\ Rendered(1)
    /\ cx_msgs[2].reply = cx_msgs[1].id /\ Rendered(2)
    /\ cx_msgs[3].reply = Dangling /\ ~Rendered(3)

\* The round-trip chat: 1 from Alice "hi", 2 from Bob "hello back" in reply to 1.
RoundTripChat ==
    <<[id |-> 1, type |-> "message", from_user |-> "Alice", from_id |-> None,
       reply_to_message_id |-> 0, text |-> <<"h", "i">>],
      [id |-> 2, type |-> "message", from_user |-> "Bob", from_id |-> None,
       reply_to_message_id |-> 1,
       text |-> <<"h", "e", "l", "l", "o", " ", "b", "a", "c", "k">>]>>

\* C15: for the round-trip chat the size level-1 output has a line for both
\* messages, and a message with text "ok" gives none.
C15_RoundTripBothLines ==
    (ou_approach = "size" /\ ou_out[1].ran) =>
        /\ ou_chat = RoundTripChat =>
              \A k \in {1, 2} : \E p \in 1..Len(ou_out[1].lines) : ou_out[1].lines[p].idx = k
        /\ \A k \in 1..Len(ou_chat) :
              ou_chat[k].text = <<"o", "k">> =>
                 \A p \in 1..Len(ou_out[1].lines) : ou_out[1].lines[p].idx # k

\* C15, amended: for the round-trip chat the size level-1 output is the one
\* line "hello back"; "hi", of 2 characters, gives no line, as a message with
\* text "ok" gives none.
C15_RoundTripSecondLineOnly ==
    (ou_approach = "size" /\ ou_out[1].ran) =>
        /\ ou_chat = RoundTripChat =>
              ou_out[1].lines =
                 <<MsgLine(2, NoLabel, <<"h", "e", "l", "l", "o", " ", "b", "a", "c", "k">>)>>
        /\ \A k \in 1..Len(ou_chat) :
              ou_chat[k].text \in {<<"o", "k">>, <<"h", "i">>} =>
                 \A p \in 1..Len(ou_out[1].lines) : ou_out[1].lines[p].idx # k

\* Size level 1 has cleaned the round-trip chat.
C15_Witness ==
    /\ ou_approach = "size"
    /\ ou_out[1].ran
    /\ ou_chat = RoundTripChat
    /\ Len(ou_out[1].lines) = 1

\* The reply target of message k is an id no message of the chat has.
DanglingReply(msgs, k, reply) ==
    reply # 0 /\ \A j \in 1..Len(msgs) : msgs[j].id # reply

\* C17: a reply_to_message_id that resolves to no message is no error and
\* gives no reply context.  No privacy or size pass raises, and the line of
\* a message with a dangling reply has no reply preview, no "Reply to ID"
\* marker and no [REPLY] marker; the context cleaner does not fail either
\* and nests such a message under nothing.
C17_DanglingReplyNoContext ==
    /\ \A l \in {1, 2, 3} :
          /\ ou_out[l].exc = NoExc
          /\ \A p \in 1..Len(ou_out[l].lines) :
                LET ln == ou_out[l].lines[p] IN
                (ln.kind = "msg"
                   /\ DanglingReply(ou_chat, ln.idx, ou_chat[ln.idx].reply_to_message_id)) =>
                    /\ ~ln.preview.shown
                    /\ ln.marker = ""
                    /\ ln.target = 0
    /\ cx_pc # "RecursionError"
    /\ \A p \in 1..Len(cx_lines) :
          (cx_lines[p] # Blank
             /\ DanglingReply(cx_msgs, cx_lines[p].idx, cx_msgs[cx_lines[p].idx].reply)) =>
              cx_lines[p].indent = 0

\* A privacy session at levels 2 and 3 on a chat whose second message
\* replies to an absent id and whose first replies to the second: the first
\* has its preview and marker, the second is rendered without any.
C17_Witness ==
    /\ ou_approach = "privacy"
    /\ ou_out[2].ran /\ ou_out[3].ran
    /\ Len(ou_chat) = 2
    /\ ou_chat[2].reply_to_message_id = MaxOutMsgs + 1
    /\ ou_chat[1].reply_to_message_id = 2
    /\ \E p \in 1..Len(ou_out[2].lines) :
          ou_out[2].lines[p].idx = 1 /\ ou_out[2].lines[p].preview.shown
    /\ \E p \in 1..Len(ou_out[3].lines) :
          ou_out[3].lines[p].idx = 1 /\ ou_out[3].lines[p].marker = "Reply to ID"
    /\ \E p \in 1..Len(ou_out[2].lines) :
          ou_out[2].lines[p].idx = 2 /\ ~ou_out[2].lines[p].preview.shown
    /\ \E p \in 1..Len(ou_out[3].lines) :
          ou_out[3].lines[p].idx = 2 /\ ou_out[3].lines[p].marker = ""

(***************************************************************************)
(* Claims about the order and completeness of the context cleaner's output *)
(***************************************************************************)
MinOf(S) == CHOOSE x \in S : \A y \in S : x <= y

\* The elements of a set of ids, smallest first.
RECURSIVE Ascending(_)
Ascending(S) == IF S = {} THEN <<>> ELSE <<MinOf(S)>> \o Ascending(S \ {MinOf(S)})

\* The ids of the messages that reply to id.
Children(msgs, id) == {msgs[k].id : k \in {j \in 1..Len(msgs) : msgs[j].reply = id}}

\* The depth-first pre-order of the thread below id: the message itself at
\* the given depth, then the threads of its children by ascending id, one
\* level deeper; nothing for an absent id or a message that is not ordinary.
RECURSIVE PreOrder(_, _, _, _)
RECURSIVE PreOrderAll(_, _, _, _)
PreOrder(msgs, id, depth, fuel) ==
    LET k == Lookup(msgs, id) IN
    IF k = 0 \/ fuel = 0 THEN <<>>
    ELSE IF msgs[k].type # "message" THEN <<>>
    ELSE <<Line(msgs, k, depth)>>
            \o PreOrderAll(msgs, Ascending(Children(msgs, id)), depth + 1, fuel - 1)

PreOrderAll(msgs, ids, depth, fuel) ==
    IF ids = <<>> THEN <<>>
    ELSE PreOrder(msgs, Head(ids), depth, fuel)
            \o PreOrderAll(msgs, Tail(ids), depth, fuel)

\* One thread and its separator per message without reply target, from
\* position k on, in source order.
RECURSIVE ThreadsFrom(_, _)
ThreadsFrom(msgs, k) ==
    IF k > Len(msgs) THEN <<>>
    ELSE (IF msgs[k].reply = 0
          THEN PreOrder(msgs, msgs[k].id, 0, Len(msgs)) \o <<Blank>>
          ELSE <<>>)
         \o ThreadsFrom(msgs, k + 1)

\* The number of reply hops from message k to the message without reply
\* target its chain ends at.
RECURSIVE Hops(_, _, _)
Hops(msgs, k, fuel) ==
    IF msgs[k].reply = 0 \/ Lookup(msgs, msgs[k].reply) = 0 \/ fuel = 0 THEN 0
    ELSE 1 + Hops(msgs, Lookup(msgs, msgs[k].reply), fuel - 1)

IsPrefix(p, q) == Len(p) <= Len(q) /\ p = SubSeq(q, 1, Len(p))

\* C25: at level 3 the output is, root by root in source order of the roots,
\* the depth-first pre-order of the root's thread with the children of every
\* message taken by ascending id, each thread followed by its separator, and
\* every line is indented by two spaces times its number of reply hops from
\* its root.
C25_Level3ThreadsInPreOrder ==
    cx_level = 3 =>
        /\ IsPrefix(cx_lines, ThreadsFrom(cx_msgs, 1))
        /\ cx_pc = "done" => cx_lines = ThreadsFrom(cx_msgs, 1)
        /\ \A p \in 1..Len(cx_lines) :
              cx_lines[p] # Blank =>
                  cx_lines[p].indent = Hops(cx_msgs, cx_lines[p].idx, Len(cx_msgs))

\* A level-3 pass has returned on a chat whose root is followed by two
\* replies to it, the one with the larger id listed first: the reply with the
\* smaller id is rendered first, both one level below the root.
C25_Witness ==
    /\ cx_pc = "done" /\ cx_level = 3
    /\ Len(cx_msgs) = 3
    /\ cx_msgs[1].reply = 0
    /\ cx_msgs[2].reply = cx_msgs[1].id /\ cx_msgs[3].reply = cx_msgs[1].id
    /\ cx_msgs[2].id > cx_msgs[3].id
    /\ cx_lines = <<Line(cx_msgs, 1, 0), Line(cx_msgs, 3, 1), Line(cx_msgs, 2, 1), Blank>>

\* C28: at level 2, whatever the order of the messages and the reply
\* structure, every ordinary message is emitted exactly once when the pass
\* returns, no message is emitted twice on the way, and a message that is
\* not ordinary is never emitted.
C28_Level2EachOrdinaryOnce ==
    cx_level = 2 =>
        \A k \in 1..Len(cx_msgs) :
            /\ Cardinality(LinesOf(k)) <= 1
            /\ cx_msgs[k].type # "message" => ~Rendered(k)
            /\ (cx_pc = "done" /\ cx_msgs[k].type = "message") => Rendered(k)

\* A level-2 pass has returned on a chat that is not in id order and holds a
\* service message, an ordinary reply to it and an ordinary reply to an
\* absent id: the two ordinary messages have one line each.
C28_Witness ==
    /\ cx_pc = "done" /\ cx_level = 2
    /\ Len(cx_msgs) = 3
    /\ ~Chronological(cx_msgs)
    /\ \E s, k, d \in 1..3 :
          /\ cx_msgs[s].type = "service"
          /\ cx_msgs[k].type = "message" /\ cx_msgs[k].reply = cx_msgs[s].id
          /\ cx_msgs[d].type = "message" /\ cx_msgs[d].reply = Dangling
          /\ Cardinality(LinesOf(k)) = 1 /\ Cardinality(LinesOf(d)) = 1
          /\ ~Rendered(s)

\* C29: at level 3 an ordinary message is emitted if and only if its reply
\* links lead, through messages that are all present and all ordinary, to a
\* message without reply target; it is then emitted exactly once; a member
\* of a reply cycle and a message that is not ordinary are never emitted.
C29_Level3EmitsExactlyAttached ==
    cx_level = 3 =>
        \A k \in 1..Len(cx_msgs) :
            /\ Cardinality(LinesOf(k)) <= 1
            /\ Rendered(k) => AttachedToRoot(cx_msgs, k, Len(cx_msgs))
            /\ (cx_pc = "done" /\ AttachedToRoot(cx_msgs, k, Len(cx_msgs)))
                  => Rendered(k)
            /\ OnCycle(cx_msgs, k, k, Len(cx_msgs)) => ~Rendered(k)
            /\ cx_msgs[k].type # "message" => ~Rendered(k)

\* A level-3 pass has returned on a chat of a service root with an ordinary
\* reply below it and an ordinary message replying to itself: nothing is
\* emitted but the separator of the one thread.
C29_Witness ==
    /\ cx_pc = "done" /\ cx_level = 3
    /\ Len(cx_msgs) = 3
    /\ \E s, k, c \in 1..3 :
          /\ cx_msgs[s].type = "service" /\ cx_msgs[s].reply = 0
          /\ cx_msgs[k].type = "message" /\ cx_msgs[k].reply = cx_msgs[s].id
          /\ cx_msgs[c].type = "message" /\ cx_msgs[c].reply = cx_msgs[c].id
    /\ cx_lines = <<Blank>>

(***************************************************************************)
(* Single calls of the formatting and decoding helpers                     *)
(*                                                                         *)
(* fm_op names the helper, fm_in is the argument it was called with and    *)
(* fm_out what came back.                                                  *)
(***************************************************************************)
MaxEntities == 2

\* model_dump() of the TextEntity values of a message: a link, a mention by
\* user name, a mention by display name, and an entity of another type.
Entities ==
    {[type |-> "link", text |-> "https://github.com/x"],
     [type |-> "mention", text |-> "@bob"],
     [type |-> "mention_name", text |-> "Bob"],
     [type |-> "bold", text |-> "b"]}

\* Messages as SizeCleaner._clean_level_1 reads them: type, text and
\* text_entities.
EntityMessages ==
    [type : {"message", "service"},
     text : OutTexts \cup {<<" ">>},
     text_entities : SeqsUpTo(Entities, MaxEntities)]

\* The string a helper returns: "" (kind "empty"), a text, or entity texts
\* joined by single spaces (parts, in order).
EmptyString == [kind |-> "empty", text |-> <<>>, parts |-> <<>>]
TextString(text) == [kind |-> "text", text |-> text, parts |-> <<>>]
JoinedString(parts) == [kind |-> "joined", text |-> <<>>, parts |-> parts]

EntityTexts(q) == [j \in 1..Len(q) |-> q[j].text]

\* SizeCleaner._clean_level_1, statement by statement, entities included.
SizeCleanLevel1(message) ==
    LET text == Strip(message.text)
        links == SelectSeq(message.text_entities, LAMBDA e : e.type = "link")
        mentions == SelectSeq(message.text_entities,
                              LAMBDA e : e.type \in {"mention", "mention_name"})
    IN IF message.type # "message" THEN EmptyString
       ELSE IF text = <<>> THEN EmptyString
       ELSE IF ~LongEnough(text) THEN EmptyString
       ELSE IF text = <<>> /\ (links # <<>> \/ mentions # <<>>)
       THEN JoinedString(EntityTexts(links) \o EntityTexts(mentions))
       ELSE IF Len(text) > 2 THEN TextString(text)
       ELSE EmptyString

\* SizeCleaner(1)._clean_level_1(message) is called.
FmtSizeLevel1 ==
    /\ fm_op = None
    /\ \E message \in EntityMessages :
          /\ fm_in' = message
          /\ fm_out' = SizeCleanLevel1(message)
    /\ fm_op' = "size_level_1"
    /\ UNCHANGED <<cleanVars, parseVars, ctxVars, anonVars, outVars, batchVars>>

\* The files _read_file_with_encoding is called on.  readable: open() and
\* read() succeed.  raw: the bytes are empty, valid UTF-8, or not valid
\* UTF-8.  For bytes that are not UTF-8, what chardet.detect(raw_data)
\* answers: encoding None ("none"), the name of a codec that decodes the
\* bytes ("decodes"), the name of a codec that rejects them ("rejects"), or a
\* name Python has no codec for ("no_codec", e.g. "X-ISO-10646-UCS-4-3412"
\* for bytes that start with FE FF 00 00); and a confidence below 0.7 or not.
Files ==
    [readable : BOOLEAN, raw : {"empty", "utf8", "not_utf8"},
     detected : {"none", "decodes", "rejects", "no_codec"},
     confidence : {"low", "high"}]

Decoded(text, warned) == [exc |-> None, text |-> text, low_confidence_warned |-> warned]
ReadRaises(type) == [exc |-> type, text |-> None, low_confidence_warned |-> FALSE]

\* raw_data.decode(encoding) with the detected encoding: the text, or the
\* exception bytes.decode raises.
DecodeDetected(detected) ==
    CASE detected = "decodes" -> [exc |-> None, text |-> "detected"]
      [] detected = "rejects" -> [exc |-> "UnicodeDecodeError", text |-> None]
      [] detected = "none" -> [exc |-> "TypeError", text |-> None]
      [] OTHER -> [exc |-> "LookupError", text |-> None]

\* The exceptions the inner handler of _read_file_with_encoding catches.
CaughtByFallback == {"UnicodeDecodeError", "AttributeError", "TypeError"}

\* TelegramParser._read_file_with_encoding
ReadFileWithEncoding(file) ==
    IF ~file.readable THEN ReadRaises("IOError")
    ELSE IF file.raw = "empty" THEN ReadRaises("ValueError")
    ELSE IF file.raw = "utf8" THEN Decoded("utf8_strict", FALSE)
    ELSE LET r == DecodeDetected(file.detected)
             warned == file.confidence = "low"
         IN IF r.exc = None THEN Decoded(r.text, warned)
            ELSE IF r.exc \in CaughtByFallback THEN Decoded("utf8_replace", warned)
            ELSE [ReadRaises(r.exc) EXCEPT !.low_confidence_warned = warned]

\* TelegramParser()._read_file_with_encoding(file_path) is called.
FmtReadFile ==
    /\ fm_op = None
    /\ \E file \in Files :
          /\ fm_in' = file
          /\ fm_out' = ReadFileWithEncoding(file)
    /\ fm_op' = "read_file"
    /\ UNCHANGED <<cleanVars, parseVars, ctxVars, anonVars, outVars, batchVars>>

MaxReactions == 4
MaxCount == 2

\* model_dump() of the Reaction values of a message: emoji (None for a
\* reaction that has none, such as a custom emoji) and count.
Reactions == [emoji : {"thumbs_up", "heart", None}, count : 0..MaxCount]

\* Where x goes in a list sorted by descending count so that it stays before
\* the elements of equal count.
RECURSIVE InsertByCount(_, _)
InsertByCount(x, q) ==
    IF q = <<>> THEN <<x>>
    ELSE IF Head(q).count > x.count THEN <<Head(q)>> \o InsertByCount(x, Tail(q))
    ELSE <<x>> \o q

\* sorted(reactions, key=lambda r: r.get("count", 0), reverse=True): by
\* descending count, reactions of equal count in their original order.
RECURSIVE SortedByCount(_)
SortedByCount(q) ==
    IF q = <<>> THEN <<>> ELSE InsertByCount(Head(q), SortedByCount(Tail(q)))

\* `if emoji and count > 0`
Shows(r) == Truthy(r.emoji) /\ r.count > 0

\* SizeCleaner._get_top_reactions: the emoji-count pairs that are joined by
\* single spaces.
GetTopReactions(reactions, limit) ==
    IF reactions = <<>> THEN <<>>
    ELSE SelectSeq(Prefix(SortedByCount(reactions), limit), Shows)

\* "Add reactions (compact format)" of _clean_level_3: the tag, when there
\* is one, and the pairs it shows.
ReactionsTag(reactions) ==
    LET top_reactions == IF reactions # <<>> THEN GetTopReactions(reactions, 3)
                         ELSE <<>>
    IN [shown |-> top_reactions # <<>>, parts |-> top_reactions]

\* SizeCleaner(3)._clean_level_3 formats the reactions of a message.
FmtReactions ==
    /\ fm_op = None
    /\ \E reactions \in SeqsUpTo(Reactions, MaxReactions) :
          /\ fm_in' = reactions
          /\ fm_out' = ReactionsTag(reactions)
    /\ fm_op' = "reactions"
    /\ UNCHANGED <<cleanVars, parseVars, ctxVars, anonVars, outVars, batchVars>>

\* A text of n characters, "a" and "b" in turn.
TextOfLen(n) == [i \in 1..n |-> IF i % 2 = 1 THEN "a" ELSE "b"]

\* The lengths of the reply targets' texts: around the two cuts.
TargetLens == {0, 1, 49, 50, 51, 99, 100, 101}

\* Chats of a target (id 1) and a message (id 2) that replies to it, to
\* nothing (0) or to an id no message has (3).
PreviewChats ==
    {<<[id |-> 1, type |-> "message", from_user |-> u, from_id |-> f,
        reply_to_message_id |-> 0, text |-> TextOfLen(n)],
       [id |-> 2, type |-> "message", from_user |-> "Bob", from_id |-> "user6",
        reply_to_message_id |-> r, text |-> TextOfLen(2)]>> :
        u \in {None, "Alice"}, f \in {None, "user123"}, n \in TargetLens,
        r \in {0, 1, 3}}

\* BaseCleaner._format_message_with_reply, "Add reply indicator": the
\* "[Replying to <sender>: <text>]" part, when there is one.
FormatMessageWithReply(msgs, message) ==
    IF ~Resolves(msgs, message) THEN NoPreview
    ELSE LET reply_to == msgs[Lookup(msgs, message.reply_to_message_id)]
             reply_sender == OrLabel(reply_to, "from_user",
                                OrLabel(reply_to, "from_id", Str("Unknown")))
             reply_text == Prefix(reply_to.text, 100)
         IN IF reply_text # <<>>
            THEN [shown |-> TRUE, sender |-> reply_sender, text |-> reply_text]
            ELSE NoPreview

\* The reply preview of message 2 of the chat is made, by privacy level 2 or
\* by the base cleaner's helper.
FmtReplyPreview ==
    /\ fm_op = None
    /\ \E helper \in {"_clean_level_2", "_format_message_with_reply"},
          msgs \in PreviewChats :
          /\ fm_in' = [helper |-> helper, msgs |-> msgs]
          /\ fm_out' = IF helper = "_clean_level_2"
                       THEN PrivacyLevel2(msgs, 2, EmptyMapping).line.preview
                       ELSE FormatMessageWithReply(msgs, msgs[2])
    /\ fm_op' = "reply_preview"
    /\ UNCHANGED <<cleanVars, parseVars, ctxVars, anonVars, outVars, batchVars>>

FmtInit == CleanIdle /\ ParseIdle /\ CtxIdle /\ AnonIdle /\ OutIdle /\ FmtIdle /\ BatchIdle
FmtNext == FmtSizeLevel1 \/ FmtReadFile \/ FmtReactions \/ FmtReplyPreview
SpecFmt == FmtInit /\ [][FmtNext]_vars

(***************************************************************************)
(* Claims about the helpers                                                *)
(***************************************************************************)
\* The message is ordinary, has no text once trimmed, and carries a link or
\* a mention.
EntitiesOnly(message) ==
    /\ message.type = "message"
    /\ Strip(message.text) = <<>>
    /\ \E j \in 1..Len(message.text_entities) :
          message.text_entities[j].type \in {"link", "mention", "mention_name"}

\* C22: at size level 1 an ordinary message without plain text that carries
\* link or mention entities is emitted as those entity texts joined by single
\* spaces, the links first, then the mentions.
C22_EntitiesEmittedForEmptyText ==
    (fm_op = "size_level_1" /\ EntitiesOnly(fm_in)) =>
        fm_out = JoinedString(
            EntityTexts(SelectSeq(fm_in.text_entities, LAMBDA e : e.type = "link"))
            \o EntityTexts(SelectSeq(fm_in.text_entities,
                                     LAMBDA e : e.type \in {"mention", "mention_name"})))

\* What the cleaner does instead: a message without text is dropped,
\* whatever entities it carries, and no output is ever made of entity texts.
C22_EmptyTextDroppedDespiteEntities ==
    fm_op = "size_level_1" =>
        /\ fm_out.kind # "joined"
        /\ Strip(fm_in.text) = <<>> => fm_out = EmptyString

\* C24: decoding never aborts: for every non-empty byte content
\* _read_file_with_encoding returns a text: the strict UTF-8 decoding when
\* there is one, else the decoding by the detected encoding, a low confidence
\* only being logged, else, whenever that decoding fails for any reason,
\* UTF-8 with replacement of the invalid sequences.
C24_DecodingNeverAborts ==
    (fm_op = "read_file" /\ fm_in.readable /\ fm_in.raw # "empty") =>
        /\ fm_out.exc = None
        /\ fm_out.text =
              CASE fm_in.raw = "utf8" -> "utf8_strict"
                [] fm_in.detected = "decodes" -> "detected"
                [] OTHER -> "utf8_replace"

\* The part of C24 the reader keeps: decoding gives a text by that scheme
\* unless the detected name is one Python has no codec for.
C24_DecodingAbortsOnlyOnUnknownCodec ==
    (fm_op = "read_file" /\ fm_in.readable /\ fm_in.raw # "empty") =>
        IF fm_in.raw = "not_utf8" /\ fm_in.detected = "no_codec"
        THEN fm_out.exc = "LookupError"
        ELSE /\ fm_out.exc = None
             /\ fm_out.text =
                   CASE fm_in.raw = "utf8" -> "utf8_strict"
                     [] fm_in.detected = "decodes" -> "detected"
                     [] OTHER -> "utf8_replace"

\* The reactions of the message that have an emoji and a positive count.
Showable(reactions) == SelectSeq(reactions, Shows)

Descending(parts) ==
    \A a, b \in 1..Len(parts) : a < b => parts[a].count >= parts[b].count

\* C26: the reactions tag of size level 3 shows the (up to) three reactions
\* with the highest counts among the message's reactions that have an emoji
\* and a positive count, in descending order of count; the tag is absent only
\* when no reaction has an emoji and a positive count.
C26_TopThreeOfShowableReactions ==
    fm_op = "reactions" =>
        LET showable == Showable(fm_in)
            parts == fm_out.parts
        IN /\ fm_out.shown <=> showable # <<>>
           /\ Len(parts) = (IF Len(showable) < 3 THEN Len(showable) ELSE 3)
           /\ Descending(parts)
           /\ \A a \in 1..Len(parts) : \E j \in 1..Len(showable) : showable[j] = parts[a]
           /\ Len(showable) > 3 =>
                 \A j \in 1..Len(showable) :
                     showable[j].count > parts[3].count
                        => \E a \in 1..3 : parts[a] = showable[j]

\* What the cleaner does instead: the three reactions with the highest
\* counts are taken first and those of them without emoji or with a count
\* of 0 are then left out, so fewer than three, or none, may be shown while
\* other reactions could be.
C26_ShowableAmongTopThree ==
    fm_op = "reactions" =>
        LET parts == fm_out.parts IN
        /\ fm_out.shown <=> parts # <<>>
        /\ Len(parts) <= 3
        /\ Descending(parts)
        /\ \A a \in 1..Len(parts) :
              /\ Shows(parts[a])
              /\ \E j \in 1..Len(fm_in) : fm_in[j] = parts[a]
        /\ Len(fm_in) <= 3 => parts = SortedByCount(Showable(fm_in))

\* The preview is there exactly when the reply target is in the chat and
\* its text is not empty, and it holds the first characters of that text, at
\* most n of them.
PreviewWithin(n) ==
    LET msgs == fm_in.msgs
        t == Lookup(msgs, msgs[2].reply_to_message_id)
    IN /\ fm_out.shown <=> (t # 0 /\ msgs[t].text # <<>>)
       /\ fm_out.shown =>
             /\ Len(fm_out.text) <= n
             /\ IsPrefix(fm_out.text, msgs[t].text)

\* C27: every reply preview, that of privacy level 2 and that of the base
\* cleaner's helper alike, holds at most the first 50 characters of the
\* target's text and is made only when the reply target resolves and its
\* text is not empty.
C27_PreviewsAtMost50 ==
    fm_op = "reply_preview" => PreviewWithin(REPLY_TEXT_PREVIEW_LENGTH)

\* What the cleaners do: the preview of privacy level 2 is cut at 50
\* characters, the one of the base cleaner's helper at 100.
C27_PreviewCutPerHelper ==
    fm_op = "reply_preview" =>
        IF fm_in.helper = "_clean_level_2"
        THEN /\ PreviewWithin(REPLY_TEXT_PREVIEW_LENGTH)
             /\ fm_out.shown =>
                   Len(fm_out.text) = (IF Len(fm_in.msgs[1].text) < 50
                                       THEN Len(fm_in.msgs[1].text) ELSE 50)
        ELSE /\ PreviewWithin(100)
             /\ fm_out.shown =>
                   Len(fm_out.text) = (IF Len(fm_in.msgs[1].text) < 100
                                       THEN Len(fm_in.msgs[1].text) ELSE 100)

(***************************************************************************)
(* batch_processor.BatchProcessor._process_multiple_files                  *)
(*                                                                         *)
(* The calling thread takes the input files in order: it chooses an output *)
(* path for each and hands the file to the pool, whose workers run         *)
(* _process_single_file, that is TelegramAnalyzer.clean with the privacy   *)
(* approach and the write of the output file, at their own pace.  An input *)
(* file is a valid export with a chat name and the from_ids of its         *)
(* messages, none with a display name, or a file that is no export.  An    *)
(* output path is the cleaned chat name and the timestamp, in whole        *)
(* seconds, of the moment it was chosen; approach, level and extension are *)
(* the same for the whole batch.                                           *)
(***************************************************************************)
MaxFiles == 2
MaxBatchMsgs == 2
MaxClock == 1
max_workers == 4

BatchIds == {"user123", "user6"}
ChatNames == {"Family", "My Chat", "My-Chat"}

InputFiles ==
    [valid : {TRUE}, name : ChatNames,
     ids : SeqsUpTo(BatchIds, MaxBatchMsgs) \ {<<>>}]
    \cup {[valid |-> FALSE, name |-> None, ids |-> <<>>]}

\* The lists of n files.
RECURSIVE FileLists(_)
FileLists(n) ==
    IF n = 0 THEN {<<>>}
    ELSE {Append(q, f) : q \in FileLists(n - 1), f \in InputFiles}

\* _extract_chat_name: data["name"], or the stem of the file's name (one per
\* input file) when the file cannot be read as JSON.
ExtractChatName(file, t) ==
    IF file.valid THEN [text |-> file.name, stem |-> 0]
    ELSE [text |-> "stem", stem |-> t]

\* _clean_filename: characters other than word characters, spaces and
\* hyphens are removed, runs of spaces and hyphens become one underscore.
CleanFilename(name) ==
    CASE name.text \in {"My Chat", "My-Chat"} -> [name EXCEPT !.text = "My_Chat"]
      [] OTHER -> name

\* _generate_output_path
GenerateOutputPath(file, t, now) ==
    [name |-> CleanFilename(ExtractChatName(file, t)), stamp |-> now]

NoPath == [name |-> [text |-> None, stem |-> 0], stamp |-> 0]
NoResult == [set |-> FALSE, path |-> NoPath]
Tasks == 1..Len(bt_files)
Running == {t \in Tasks : bt_pc[t] \in {"parse", "cleaner", "loop", "write"}}

\* output_file.exists()
Exists(path) == \E d \in bt_disk : d.path = path

\* _process_multiple_files is called with two or more files.
BatchCall ==
    /\ bt_main = "idle"
    /\ \E n \in 2..MaxFiles : \E q \in FileLists(n) :
          /\ bt_files' = q
          /\ bt_path' = [t \in 1..n |-> NoPath]
          /\ bt_pc' = [t \in 1..n |-> "none"]
          /\ bt_cleaner' = [t \in 1..n |-> 0]
          /\ bt_k' = [t \in 1..n |-> 0]
          /\ bt_out' = [t \in 1..n |-> <<>>]
          /\ bt_results' = [t \in 1..n |-> NoResult]
    /\ bt_skip' \in BOOLEAN
    /\ bt_main' = "submit"
    /\ bt_i' = 1
    /\ UNCHANGED <<bt_now, bt_mapping, bt_disk>>
    /\ UNCHANGED <<cleanVars, parseVars, ctxVars, anonVars, outVars, fmtVars>>

\* A second passes while the files are being submitted.
BatchTick ==
    /\ bt_main = "submit"
    /\ bt_now < MaxClock
    /\ bt_now' = bt_now + 1
    /\ UNCHANGED <<bt_main, bt_skip, bt_files, bt_i, bt_path, bt_pc, bt_cleaner,
                   bt_k, bt_out, bt_mapping, bt_disk, bt_results>>
    /\ UNCHANGED <<cleanVars, parseVars, ctxVars, anonVars, outVars, fmtVars>>

\* One turn of the submission loop: the path is chosen now; with
\* skip_existing an existing path is the file's result at once, otherwise the
\* file is handed to the pool.  After the last file the results are awaited.
BatchSubmit ==
    /\ bt_main = "submit"
    /\ bt_i <= Len(bt_files)
    /\ LET path == GenerateOutputPath(bt_files[bt_i], bt_i, bt_now) IN
          IF bt_skip /\ Exists(path)
          THEN /\ bt_results' = [bt_results EXCEPT ![bt_i] = [set |-> TRUE, path |-> path]]
               /\ bt_pc' = [bt_pc EXCEPT ![bt_i] = "skipped"]
               /\ UNCHANGED bt_path
          ELSE /\ bt_path' = [bt_path EXCEPT ![bt_i] = path]
               /\ bt_pc' = [bt_pc EXCEPT ![bt_i] = "queued"]
               /\ UNCHANGED bt_results
    /\ bt_i' = bt_i + 1
    /\ bt_main' = IF bt_i = Len(bt_files) THEN "collect" ELSE "submit"
    /\ UNCHANGED <<bt_skip, bt_files, bt_now, bt_cleaner, bt_k, bt_out,
                   bt_mapping, bt_disk>>
    /\ UNCHANGED <<cleanVars, parseVars, ctxVars, anonVars, outVars, fmtVars>>

\* A free worker takes a submitted file and calls analyzer.clean.
BatchStart(t) ==
    /\ bt_pc[t] = "queued"
    /\ Cardinality(Running) < max_workers
    /\ bt_pc' = [bt_pc EXCEPT ![t] = "parse"]
    /\ UNCHANGED <<bt_main, bt_skip, bt_files, bt_now, bt_i, bt_path, bt_cleaner,
                   bt_k, bt_out, bt_mapping, bt_disk, bt_results>>
    /\ UNCHANGED <<cleanVars, parseVars, ctxVars, anonVars, outVars, fmtVars>>

\* clean validates and parses the file; what it raises is caught by
\* _process_single_file, which then reports a failure.
BatchParse(t) ==
    /\ bt_pc[t] = "parse"
    /\ bt_pc' = [bt_pc EXCEPT ![t] = IF bt_files[t].valid THEN "cleaner" ELSE "failed"]
    /\ UNCHANGED <<bt_main, bt_skip, bt_files, bt_now, bt_i, bt_path, bt_cleaner,
                   bt_k, bt_out, bt_mapping, bt_disk, bt_results>>
    /\ UNCHANGED <<cleanVars, parseVars, ctxVars, anonVars, outVars, fmtVars>>

\* A worker that takes the first cleaner ever made instead of making one.
BatchGetCleanerShared(t) ==
    /\ bt_pc[t] = "cleaner"
    /\ bt_mapping' = IF bt_mapping = <<>> THEN <<EmptyMapping>> ELSE bt_mapping
    /\ bt_cleaner' = [bt_cleaner EXCEPT ![t] = 1]
    /\ bt_k' = [bt_k EXCEPT ![t] = 1]
    /\ bt_pc' = [bt_pc EXCEPT ![t] = "loop"]
    /\ UNCHANGED <<bt_main, bt_skip, bt_files, bt_now, bt_i, bt_path, bt_out,
                   bt_disk, bt_results>>
    /\ UNCHANGED <<cleanVars, parseVars, ctxVars, anonVars, outVars, fmtVars>>

\* clean: get_cleaner makes a new PrivacyCleaner, whose __init__ gives it an
\* empty anonymization map.
BatchGetCleaner(t) ==
    /\ bt_pc[t] = "cleaner"
    /\ bt_mapping' = Append(bt_mapping, EmptyMapping)
    /\ bt_cleaner' = [bt_cleaner EXCEPT ![t] = Len(bt_mapping) + 1]
    /\ bt_k' = [bt_k EXCEPT ![t] = 1]
    /\ bt_pc' = [bt_pc EXCEPT ![t] = "loop"]
    /\ UNCHANGED <<bt_main, bt_skip, bt_files, bt_now, bt_i, bt_path, bt_out,
                   bt_disk, bt_results>>
    /\ UNCHANGED <<cleanVars, parseVars, ctxVars, anonVars, outVars, fmtVars>>

\* The worker's cleaner takes the next message of its file.
BatchCleanMessage(t) ==
    /\ bt_pc[t] = "loop"
    /\ LET c == bt_cleaner[t]
           a == AnonymizeUserId(bt_mapping[c], bt_files[t].ids[bt_k[t]])
       IN  /\ bt_mapping' = [bt_mapping EXCEPT ![c] = a.mapping]
           /\ bt_out' = [bt_out EXCEPT ![t] = Append(@, a.ret)]
    /\ bt_k' = [bt_k EXCEPT ![t] = @ + 1]
    /\ bt_pc' = [bt_pc EXCEPT ![t] = IF bt_k[t] = Len(bt_files[t].ids) THEN "write" ELSE "loop"]
    /\ UNCHANGED <<bt_main, bt_skip, bt_files, bt_now, bt_i, bt_path, bt_cleaner,
                   bt_disk, bt_results>>
    /\ UNCHANGED <<cleanVars, parseVars, ctxVars, anonVars, outVars, fmtVars>>

\* _process_single_file: open(output_file, "w") and write; what was at the
\* path before is replaced.
BatchWrite(t) ==
    /\ bt_pc[t] = "write"
    /\ bt_disk' = {d \in bt_disk : d.path # bt_path[t]}
                  \cup {[path |-> bt_path[t], src |-> t, data |-> bt_out[t]]}
    /\ bt_pc' = [bt_pc EXCEPT ![t] = "done"]
    /\ UNCHANGED <<bt_main, bt_skip, bt_files, bt_now, bt_i, bt_path, bt_cleaner,
                   bt_k, bt_out, bt_mapping, bt_results>>
    /\ UNCHANGED <<cleanVars, parseVars, ctxVars, anonVars, outVars, fmtVars>>

\* as_completed: the results of the finished workers are taken in any order;
\* a success gives the output path, a failure the empty string.
BatchCollect(t) ==
    /\ bt_main = "collect"
    /\ bt_pc[t] \in {"done", "failed"}
    /\ ~bt_results[t].set
    /\ bt_results' = [bt_results EXCEPT ![t] =
           [set |-> TRUE, path |-> IF bt_pc[t] = "done" THEN bt_path[t] ELSE NoPath]]
    /\ UNCHANGED <<bt_main, bt_skip, bt_files, bt_now, bt_i, bt_path, bt_pc,
                   bt_cleaner, bt_k, bt_out, bt_mapping, bt_disk>>
    /\ UNCHANGED <<cleanVars, parseVars, ctxVars, anonVars, outVars, fmtVars>>

\* The mapping is returned when every file has its result.
BatchReturn ==
    /\ bt_main = "collect"
    /\ \A t \in Tasks : bt_results[t].set
    /\ bt_main' = "returned"
    /\ UNCHANGED <<bt_skip, bt_files, bt_now, bt_i, bt_path, bt_pc, bt_cleaner,
                   bt_k, bt_out, bt_mapping, bt_disk, bt_results>>
    /\ UNCHANGED <<cleanVars, parseVars, ctxVars, anonVars, outVars, fmtVars>>

BatchInit ==
    CleanIdle /\ ParseIdle /\ CtxIdle /\ AnonIdle /\ OutIdle /\ FmtIdle /\ BatchIdle

BatchNext ==
    \/ BatchCall
    \/ BatchTick
    \/ BatchSubmit
    \/ \E t \in Tasks : BatchStart(t)
    \/ \E t \in Tasks : BatchParse(t)
    \/ \E t \in Tasks : BatchGetCleaner(t)
    \/ \E t \in Tasks : BatchCleanMessage(t)
    \/ \E t \in Tasks : BatchWrite(t)
    \/ \E t \in Tasks : BatchCollect(t)
    \/ BatchReturn

SpecBatch == BatchInit /\ [][BatchNext]_vars

(***************************************************************************)
(* Claims about batch processing                                           *)
(***************************************************************************)

\* One fresh cleaner taking the ids in order, alone: the labels it has
\* written and the map it holds.
RECURSIVE CleanedAlone(_)
CleanedAlone(ids) ==
    IF ids = <<>> THEN [out |-> <<>>, mapping |-> EmptyMapping]
    ELSE LET before == CleanedAlone(SubSeq(ids, 1, Len(ids) - 1))
             a == AnonymizeUserId(before.mapping, ids[Len(ids)])
         IN [out |-> Append(before.out, a.ret), mapping |-> a.mapping]

Cleaning == {t \in Tasks : bt_pc[t] \in {"loop", "write", "done"}}

\* C21: the workers of a batch share no mutable state.  Every file being
\* cleaned has a cleaner of its own, the anonymization map of that cleaner
\* holds what cleaning the file alone would have put in it so far and nothing
\* of another file, and under every interleaving of the workers the output
\* of a file, also the one written to disk, is the output of cleaning that
\* file alone.
C21_WorkersShareNoState ==
    /\ \A t, u \in Cleaning : t # u => bt_cleaner[t] # bt_cleaner[u]
    /\ \A t \in Cleaning :
          LET alone == CleanedAlone(SubSeq(bt_files[t].ids, 1, bt_k[t] - 1)) IN
             /\ bt_out[t] = alone.out
             /\ bt_mapping[bt_cleaner[t]] = alone.mapping
    /\ \A d \in bt_disk : d.data = CleanedAlone(bt_files[d.src].ids).out

\* Two workers are in the middle of files with different authors, each
\* having cleaned a message, and one of them is about to meet an author the
\* other has already mapped.
C21_Witness ==
    /\ bt_main # "idle"
    /\ \E t, u \in Tasks :
          /\ t # u
          /\ bt_pc[t] = "loop" /\ bt_pc[u] = "loop"
          /\ bt_k[t] = 2 /\ bt_k[u] = 2
          /\ bt_files[t].ids[1] # bt_files[u].ids[1]
          /\ bt_files[t].ids[2] = bt_files[u].ids[1]

Submitted == {t \in Tasks : bt_pc[t] \in {"queued", "parse", "cleaner", "loop", "write", "done", "failed"}}
Succeeded == {t \in Tasks : bt_results[t].set /\ bt_results[t].path # NoPath}

\* C30: distinct input files of a batch always get distinct output paths, so
\* that no two workers write the same file, and the mapping that is returned
\* sends every input that has an output to a file holding the data of that
\* input.
C30_DistinctInputsDistinctOutputs ==
    /\ \A t, u \in Submitted : t # u => bt_path[t] # bt_path[u]
    /\ bt_main = "returned" =>
          \A t \in Succeeded :
             \E d \in bt_disk : d.path = bt_results[t].path /\ d.src = t

\* What does hold: two inputs share an output path only when their chat
\* names clean to the same file name and their paths were chosen in the same
\* second, and the mapping that is returned sends every input that has an
\* output to a file that exists and holds the data of an input whose chat
\* name cleans to the same file name.
C30_PathsSharedOnlyBySameNameAndSecond ==
    /\ \A t, u \in Submitted :
          bt_path[t] = bt_path[u] =>
             /\ CleanFilename(ExtractChatName(bt_files[t], t))
                   = CleanFilename(ExtractChatName(bt_files[u], u))
             /\ bt_path[t].stamp = bt_path[u].stamp
    /\ bt_main = "returned" =>
          \A t \in Succeeded :
             \E d \in bt_disk :
                /\ d.path = bt_results[t].path
                /\ CleanFilename(ExtractChatName(bt_files[d.src], d.src))
                      = CleanFilename(ExtractChatName(bt_files[t], t))

====
